---------------------------- MODULE Spec2Model ----------------------------
(***************************************************************************)
(* A model of the quadruple optimizers of the compiler.                    *)
(*                                                                         *)
(*  - the fixed-point driver of Compiler-main-2/src/optimizer/Optimizer.cpp*)
(*    (constant_folding, copy_propagation, eliminate_common_subexpressions,*)
(*    loop_invariant_code_motion, strength_reduction,                      *)
(*    dead_code_elimination, repeated while any reports a change);         *)
(*  - the block-based Optimizer::optimize of                               *)
(*    src/code_generator/CodeGenerator.h (label lowering,                  *)
(*    build_basic_blocks, compute_def_use_sets, compute_live_variables,    *)
(*    optimize_basic_blocks, recompute_jump_targets);                      *)
(*  - the quadruple emitter of src/parser/Parser.cpp;                      *)
(*  - the scopes and entries of src/semantic_analyzer/SymbolTable.cpp;     *)
(*  - the request handler of webview/server.js.                            *)
(*                                                                         *)
(* Ordinals are 0-based as in the code; TLA+ sequences are 1-based, so the *)
(* instruction at ordinal i of a sequence s is s[i + 1].  The two source   *)
(* snapshots spell the jump opcodes JUMP/JUMP_IF_FALSE and JMP/JPF; the    *)
(* model writes JMP and JPF for both.  Constants are doubles in the code;  *)
(* the model computes with exact fractions <<numerator, denominator>>.     *)
(* Every quadruple carries one field the code does not have, ord: the      *)
(* ordinal the instruction had in the input sequence (a negative number   *)
(* for an instruction a pass created).  No pass reads it; it is copied     *)
(* with the instruction and lets a property name "the same instruction".   *)
(***************************************************************************)
EXTENDS Integers, Sequences, FiniteSets, TLC

VARIABLES
    input_quads,      \* the argument of Optimizer::optimize
    quads,            \* the working sequence (quads / optimized_quads)
    constant_table,   \* SymbolTable::constant_table
    pc,               \* position of the running call
    changed,          \* driver: the `changed` flag of the current iteration
    iterations,       \* completed evaluations of the loop condition (driver, liveness)
    sr_counter,       \* static temp_counter_for_strength_reduction
    before_pass,      \* driver: the sequence as it was when the last pass began
    before_table,     \* driver: the constant pool as it was when the last pass began
    last_pass,        \* driver: the pass that ran last and what it returned
    blocks,           \* block optimizer: std::vector<BasicBlock>
    cur,              \* block optimizer: index of the block being optimized
    block_quads,      \* block optimizer: the quads of that block, as rewritten so far
    temp_counter,     \* parser: the number new_temp() gives the next temporary
    control,          \* parser: the if/while statements being parsed, innermost last
    parsed,           \* parser: the if/while statements parsed to their end (history)
    before_step,      \* block optimizer: the block's quads before the last step
    garbage,          \* type tag left in the uninitialized operands of label_quad
    scope_stack,      \* SymbolTable::scope_stack, the current scope last
    symbol_entries,   \* SymbolTable::symbol_entries
    last_call,        \* symbol table: the call made last, what it returned and found
    temp_code,        \* web server: the text in the file at tempCodePath
    requests          \* web server: the POST /api/compile requests and how far each is

driverVars == <<changed, iterations, sr_counter, before_pass, before_table, last_pass>>
blockVars == <<blocks, cur, block_quads, before_step, garbage>>
tableVars == <<scope_stack, symbol_entries, last_call>>
serverVars == <<temp_code, requests>>
emitVars == <<temp_counter, control, parsed, tableVars, serverVars>>
vars == <<input_quads, quads, constant_table, pc, driverVars, blockVars, emitVars>>

-----------------------------------------------------------------------------
(* Bounds of the model. *)

\* longest input sequence given to the fixed-point driver
MaxLenDriver == 3

\* longest input sequence given to the block optimizer
MaxLenBlock == 3

\* longest block of constant arithmetic given to the folding step
MaxLenFold == 2

\* longest block given to a single step of the block optimizer
MaxLenStep == 3

\* longest sequence given to a single pass of the driver
MaxLenPass == 3

\* most blocks given to compute_live_variables, and most when every
\* behaviour of the call is followed to its end
MaxBlocks == 3
MaxBlocksFair == 2

\* most requests in flight on the web server at one time
MaxRequests == 2

\* deepest nesting of scopes and most symbol entries the table is given
MaxScopes == 3
MaxEntries == 3

\* driver iterations after which the model stops following a run
MaxIterations == 6
\* longest emitted sequence
MaxLenEmit == 6

\* instructions an execution may take before it is given up as not ending
MaxSteps == 24

-----------------------------------------------------------------------------
(* Exact arithmetic standing for double. *)

Abs(n) == IF n < 0 THEN 0 - n ELSE n

RECURSIVE Gcd(_, _)
Gcd(a, b) == IF b = 0 THEN a ELSE Gcd(b, a % b)

Norm(n, d) ==
    LET g == Gcd(Abs(n), Abs(d))
        s == IF d < 0 THEN 0 - 1 ELSE 1
    IN  IF n = 0 THEN <<0, 1>> ELSE <<(s * n) \div g, (s * d) \div g>>

Num(k) == <<k, 1>>
IsZero(v) == v[1] = 0
RAdd(a, b) == Norm(a[1] * b[2] + b[1] * a[2], a[2] * b[2])
RSub(a, b) == Norm(a[1] * b[2] - b[1] * a[2], a[2] * b[2])
RMul(a, b) == Norm(a[1] * b[1], a[2] * b[2])
RDiv(a, b) == Norm(a[1] * b[2], a[2] * b[1])
RLess(a, b) == a[1] * b[2] < b[1] * a[2]

Pad6(k) ==
    LET s == ToString(k)
    IN  IF k < 10 THEN "00000" \o s
        ELSE IF k < 100 THEN "0000" \o s
        ELSE IF k < 1000 THEN "000" \o s
        ELSE IF k < 10000 THEN "00" \o s
        ELSE IF k < 100000 THEN "0" \o s
        ELSE s

\* std::to_string(double): "%f", six digits after the point
to_string(v) ==
    LET scaled == (2 * Abs(v[1]) * 1000000 + v[2]) \div (2 * v[2])
    IN  (IF v[1] < 0 THEN "-" ELSE "")
            \o ToString(scaled \div 1000000) \o "." \o Pad6(scaled % 1000000)

-----------------------------------------------------------------------------
(* Operand and Quadruple. *)

Operand(t, i, n) == [type |-> t, index |-> i, name |-> n]

\* `{}`: a value-initialized Operand; Type's first enumerator is IDENTIFIER
EmptyOperand == Operand("IDENTIFIER", 0, "")

Ident(n) == Operand("IDENTIFIER", 0, n)
Temp(k) == Operand("TEMPORARY", k, "t" \o ToString(k))
Label(k) == Operand("LABEL", k, "L" \o ToString(k))
Const(i, table) == Operand("CONSTANT", i, to_string(table[i + 1]))

Quad(o, a1, a2, r, k) == [op |-> o, arg1 |-> a1, arg2 |-> a2, result |-> r, ord |-> k]

IsName(o) == o.type \in {"IDENTIFIER", "TEMPORARY"}
IsArith(o) == o \in {"ADD", "SUB", "MUL", "DIV"}
is_jump_op(o) == o \in {"JMP", "JPF"}
is_label_op(o) == o = "LABEL"

Min(a, b) == IF a < b THEN a ELSE b

-----------------------------------------------------------------------------
(* SymbolTable: the constant pool and the declared names. *)

\* constant_map mirrors constant_table (only lookup_or_add_constant writes
\* either), so the lookup is a search of the table.
IndexOfConstant(table, v) ==
    IF \E i \in 1..Len(table) : table[i] = v
    THEN (CHOOSE i \in 1..Len(table) : table[i] = v /\ \A j \in 1..(i - 1) : table[j] # v) - 1
    ELSE 0 - 1

\* the lookup without the push_back, to set against lookup_or_add_constant
lookup_constant(table, v) == [index |-> IndexOfConstant(table, v), table |-> table]

lookup_or_add_constant(table, v) ==
    LET found == IndexOfConstant(table, v)
    IN  IF found >= 0
        THEN [index |-> found, table |-> table]
        ELSE [index |-> Len(table), table |-> Append(table, v)]

\* the constants the lexer pooled while reading the source: 0, 2, 3
InitialConstants == <<Num(0), Num(2), Num(3)>>

\* get_symbol_entries(): the names the program declares
SymbolNames == {"x", "y"}

ValidIndex(i, table) == i >= 0 /\ i < Len(table)

Apply(o, v1, v2) ==
    CASE o = "ADD" -> RAdd(v1, v2)
      [] o = "SUB" -> RSub(v1, v2)
      [] o = "MUL" -> RMul(v1, v2)
      [] o = "DIV" -> RDiv(v1, v2)

-----------------------------------------------------------------------------
(* SymbolTable: scopes and symbol entries.  A scope maps a name to the      *)
(* index of its entry in symbol_entries; find_symbol's pointer is modelled  *)
(* by that index, nullptr by -1.                                            *)

\* no request has reached the server
ServerIdle ==
    /\ temp_code = <<>>
    /\ requests = <<>>

NoCall == [op |-> "none"]

\* SymbolTable::SymbolTable(): the global scope is entered
TableInit ==
    /\ scope_stack = << <<>> >>
    /\ symbol_entries = <<>>
    /\ last_call = NoCall

enter_scope(stack) == Append(stack, <<>>)

exit_scope(stack) == IF Len(stack) > 1 THEN SubSeq(stack, 1, Len(stack) - 1) ELSE stack

\* add_symbol failing on a name held by any scope, to set against add_symbol
add_symbol_any_scope(stack, entries, entry) ==
    IF stack = <<>> \/ \E d \in 1..Len(stack) : entry.name \in DOMAIN stack[d]
    THEN [result |-> FALSE, scope_stack |-> stack, symbol_entries |-> entries]
    ELSE [result |-> TRUE,
          scope_stack |-> [stack EXCEPT ![Len(stack)] =
                              [n \in DOMAIN @ \cup {entry.name} |->
                                  IF n = entry.name THEN Len(entries) ELSE @[n]]],
          symbol_entries |-> Append(entries, entry)]

add_symbol(stack, entries, entry) ==
    IF stack = <<>> \/ entry.name \in DOMAIN stack[Len(stack)]
    THEN [result |-> FALSE, scope_stack |-> stack, symbol_entries |-> entries]
    ELSE [result |-> TRUE,
          scope_stack |-> [stack EXCEPT ![Len(stack)] =
                              [n \in DOMAIN @ \cup {entry.name} |->
                                  IF n = entry.name THEN Len(entries) ELSE @[n]]],
          symbol_entries |-> Append(entries, entry)]

find_symbol(stack, name, find_in_current_scope_only) ==
    LET holders == {d \in 1..Len(stack) : name \in DOMAIN stack[d]}
    IN  IF stack = <<>> THEN 0 - 1
        ELSE IF find_in_current_scope_only
        THEN IF Len(stack) \in holders THEN stack[Len(stack)][name] ELSE 0 - 1
        ELSE IF holders = {} THEN 0 - 1
        ELSE stack[CHOOSE d \in holders : \A e \in holders : e <= d][name]

-----------------------------------------------------------------------------
(* The passes of the fixed-point driver (Compiler-main-2 Optimizer.cpp).   *)

FoldedQuad(q, i, v) ==
    [q EXCEPT !.op = "ASSIGN",
              !.arg1 = Operand("CONSTANT", i, to_string(v)),
              !.arg2 = EmptyOperand]

\* The test of constant_folding on one instruction: both operands pooled
\* constants, and a DIV only with a divisor other than 0.
Foldable(q, table) ==
    /\ IsArith(q.op)
    /\ q.arg1.type = "CONSTANT" /\ q.arg2.type = "CONSTANT"
    /\ ValidIndex(q.arg1.index, table) /\ ValidIndex(q.arg2.index, table)
    /\ ~(q.op = "DIV" /\ IsZero(table[q.arg2.index + 1]))

RECURSIVE FoldFrom(_, _, _, _)
FoldFrom(qs, i, table, ch) ==
    IF i > Len(qs)
    THEN [quads |-> qs, table |-> table, changed |-> ch]
    ELSE LET q == qs[i]
         IN  IF Foldable(q, table)
             THEN LET v == Apply(q.op, table[q.arg1.index + 1], table[q.arg2.index + 1])
                      r == lookup_or_add_constant(table, v)
                  IN  FoldFrom([qs EXCEPT ![i] = FoldedQuad(q, r.index, v)],
                               i + 1, r.table, TRUE)
             ELSE FoldFrom(qs, i + 1, table, ch)

constant_folding(qs, table) == FoldFrom(qs, 1, table, FALSE)

\* copies.erase(var) and every entry whose value is var
EraseCopies(copies, n) ==
    [k \in {j \in DOMAIN copies : j # n /\ copies[j] # n} |-> copies[k]]

Subst(o, copies) ==
    IF IsName(o) /\ o.name \in DOMAIN copies
    THEN [o EXCEPT !.name = copies[o.name]]
    ELSE o

RECURSIVE PropagateFrom(_, _, _, _)
PropagateFrom(qs, i, copies, ch) ==
    IF i > Len(qs)
    THEN [quads |-> qs, changed |-> ch]
    ELSE LET q == qs[i]
             a1 == Subst(q.arg1, copies)
             a2 == Subst(q.arg2, copies)
             q2 == [q EXCEPT !.arg1 = a1, !.arg2 = a2]
             c1 == IF IsName(q.result) THEN EraseCopies(copies, q.result.name) ELSE copies
             c2 == IF q.op = "ASSIGN" /\ IsName(a1) /\ q.result.name # a1.name
                   THEN [k \in DOMAIN c1 \cup {q.result.name} |->
                            IF k = q.result.name THEN a1.name ELSE c1[k]]
                   ELSE c1
         IN  PropagateFrom([qs EXCEPT ![i] = q2], i + 1, c2,
                           ch \/ a1 # q.arg1 \/ a2 # q.arg2)

\* `changed` is set whenever a name is found in `copies`; a mapping never
\* maps a name to itself, so that is exactly when the operand changes.
copy_propagation(qs) == PropagateFrom(qs, 1, <<>>, FALSE)

\* struct Expression {op, arg1_name, arg2_name}; for ADD and MUL the two
\* names are put in order.  The code orders them with std::string's >; all it
\* uses of that order is that each pair of names has one ordered form.
Expression(q) ==
    LET lo == CHOOSE n \in {q.arg1.name, q.arg2.name} : TRUE
        hi == IF lo = q.arg1.name THEN q.arg2.name ELSE q.arg1.name
    IN  IF q.op \in {"ADD", "MUL"}
        THEN [op |-> q.op, arg1_name |-> lo, arg2_name |-> hi]
        ELSE [op |-> q.op, arg1_name |-> q.arg1.name, arg2_name |-> q.arg2.name]

\* var_to_exprs[name] as a set: erasing is all the code does with the list
DependsOn(var_to_exprs, n) ==
    IF n \in DOMAIN var_to_exprs THEN var_to_exprs[n] ELSE {}

RECURSIVE CseFrom(_, _, _, _, _)
CseFrom(qs, i, available_exprs, var_to_exprs, ch) ==
    IF i > Len(qs)
    THEN [quads |-> qs, changed |-> ch]
    ELSE LET q == qs[i]
             hit == IsName(q.result) /\ q.result.name \in DOMAIN var_to_exprs
             av1 == IF hit
                    THEN [e \in DOMAIN available_exprs \ var_to_exprs[q.result.name]
                              |-> available_exprs[e]]
                    ELSE available_exprs
             ve1 == IF hit
                    THEN [n \in DOMAIN var_to_exprs \ {q.result.name} |-> var_to_exprs[n]]
                    ELSE var_to_exprs
             expr == Expression(q)
         IN  IF ~IsArith(q.op)
             THEN CseFrom(qs, i + 1, av1, ve1, ch)
             ELSE IF expr \in DOMAIN av1
             THEN CseFrom([qs EXCEPT ![i] =
                              [q EXCEPT !.op = "ASSIGN",
                                        !.arg1 = Operand("TEMPORARY", 0 - 1, av1[expr]),
                                        !.arg2 = EmptyOperand]],
                          i + 1, av1, ve1, TRUE)
             ELSE CseFrom(qs, i + 1,
                          [e \in DOMAIN av1 \cup {expr} |->
                              IF e = expr THEN q.result.name ELSE av1[e]],
                          [n \in DOMAIN ve1 \cup {q.arg1.name, q.arg2.name} |->
                              IF n \in {q.arg1.name, q.arg2.name}
                              THEN DependsOn(ve1, n) \cup {expr}
                              ELSE ve1[n]],
                          ch)

\* eliminate_common_subexpressions giving up after its first rewrite
cse_first_rewrite_only(qs) ==
    LET r == CseFrom(qs, 1, <<>>, <<>>, FALSE)
        hits == {i \in 1..Len(qs) : r.quads[i] # qs[i]}
    IN  IF hits = {}
        THEN r
        ELSE LET k == CHOOSE i \in hits : \A j \in hits : i <= j
             IN  [quads |-> [qs EXCEPT ![k] = r.quads[k]], changed |-> TRUE]

eliminate_common_subexpressions(qs) == CseFrom(qs, 1, <<>>, <<>>, FALSE)

\* Loop detection of both loop passes: a JMP whose target ordinal is below
\* its own.  The ordinals of the closing jumps, ascending as `loops` is.
IsBackJump(qs, i) ==
    LET q == qs[i + 1]
    IN  q.op = "JMP" /\ q.result.type = "LABEL" /\ q.result.index >= 0 /\ q.result.index < i

BackJumps(qs) == {i \in 0..(Len(qs) - 1) : IsBackJump(qs, i)}

SubSeqOrd(qs, lo, hi) == IF lo > hi THEN <<>> ELSE SubSeq(qs, lo + 1, hi + 1)

defined_in_loop(qs, loop_start, loop_end) ==
    {qs[i + 1].result.name : i \in {j \in loop_start..loop_end : IsName(qs[j + 1].result)}}

is_invariant(q, defined) ==
    /\ IsArith(q.op)
    /\ (q.arg1.type = "CONSTANT" \/ q.arg1.name \notin defined)
    /\ (q.arg2.type = "CONSTANT" \/ q.arg2.name \notin defined)

\* HoistLoop with the invariant instructions put back behind the others
HoistLoopBehind(qs, loop_start, loop_end) ==
    LET defined == defined_in_loop(qs, loop_start, loop_end)
        range == SubSeqOrd(qs, loop_start, loop_end)
        invariant_code == SelectSeq(range, LAMBDA q : is_invariant(q, defined))
        kept == SelectSeq(range, LAMBDA q : ~is_invariant(q, defined))
    IN  [moved |-> Len(invariant_code),
         quads |-> SubSeqOrd(qs, 0, loop_start - 1) \o kept \o invariant_code
                      \o SubSeqOrd(qs, loop_end + 1, Len(qs) - 1)]

\* One detected range: the invariant instructions are erased from it and
\* inserted at loop_start.
HoistLoop(qs, loop_start, loop_end) ==
    LET defined == defined_in_loop(qs, loop_start, loop_end)
        range == SubSeqOrd(qs, loop_start, loop_end)
        invariant_code == SelectSeq(range, LAMBDA q : is_invariant(q, defined))
        kept == SelectSeq(range, LAMBDA q : ~is_invariant(q, defined))
    IN  [moved |-> Len(invariant_code),
         quads |-> SubSeqOrd(qs, 0, loop_start - 1) \o invariant_code \o kept
                      \o SubSeqOrd(qs, loop_end + 1, Len(qs) - 1)]

RECURSIVE LicmFrom(_, _)
LicmFrom(qs, ends) ==
    IF ends = {}
    THEN [quads |-> qs, changed |-> FALSE]
    ELSE LET e == CHOOSE i \in ends : \A j \in ends : i <= j
             h == HoistLoop(qs, qs[e + 1].result.index, e)
         IN  IF h.moved > 0
             THEN [quads |-> h.quads, changed |-> TRUE]
             ELSE LicmFrom(qs, ends \ {e})

loop_invariant_code_motion(qs) == LicmFrom(qs, BackJumps(qs))

\* the first ordinal of a set of ordinals (where a for loop breaks), or -1
FirstIn(ordinals) ==
    IF ordinals = {} THEN 0 - 1 ELSE CHOOSE i \in ordinals : \A j \in ordinals : i <= j

IsInductionUpdate(q) ==
    q.op = "ADD" /\ q.result.name = q.arg1.name /\ q.arg2.type = "CONSTANT"

IsReducibleMul(q, ind) ==
    /\ q.op = "MUL"
    /\ \/ q.arg1.name = ind /\ q.arg2.type = "CONSTANT"
       \/ q.arg2.name = ind /\ q.arg1.type = "CONSTANT"

InsertAt(qs, pos, q) ==
    SubSeqOrd(qs, 0, pos - 1) \o <<q>> \o SubSeqOrd(qs, pos, Len(qs) - 1)

\* Step 3 of strength_reduction on the multiply at ordinal i of the range.
\* `q` is a reference to quads[i] taken before quads.insert(); the insert
\* invalidates it.  reallocated: the vector moved to new storage and the
\* writes through q are lost.  Otherwise the elements were shifted in place
\* and the writes land in slot i, which now holds the instruction that was
\* at i - 1 (or init_quad itself when i = loop_start).
ReduceMul(qs, table, counter, loop_start, loop_end, ind, step, i, reallocated) ==
    LET q == qs[i + 1]
        const_operand == IF q.arg1.name = ind /\ q.arg2.type = "CONSTANT"
                         THEN q.arg2 ELSE q.arg1
        new_temp_op == Operand("TEMPORARY", 0 - 1, "s" \o ToString(counter))
        init_quad == Quad("MUL", q.arg1, q.arg2, new_temp_op, 0 - (2 * counter + 1))
        inserted == InsertAt(qs, loop_start, init_quad)
        written == IF reallocated
                   THEN inserted
                   ELSE [inserted EXCEPT ![i + 1] =
                            [@ EXCEPT !.op = "ASSIGN", !.arg1 = new_temp_op,
                                      !.arg2 = EmptyOperand]]
        v == RMul(table[const_operand.index + 1], table[step.index + 1])
        r == lookup_or_add_constant(table, v)
        new_const_op == Operand("CONSTANT", r.index, to_string(v))
        update_quad == Quad("ADD", new_temp_op, new_const_op, new_temp_op, 0 - (2 * counter + 2))
        found == FirstIn({j \in loop_start..(loop_end + 1) : written[j + 1].result.name = ind})
        induction_update_pos == IF found < 0 THEN 0 ELSE found
    IN  [quads |-> InsertAt(written, induction_update_pos + 1, update_quad),
         table |-> r.table, counter |-> counter + 1, changed |-> TRUE]

RECURSIVE SrFrom(_, _, _, _, _)
SrFrom(qs, table, counter, ends, reallocated) ==
    IF ends = {}
    THEN [quads |-> qs, table |-> table, counter |-> counter, changed |-> FALSE]
    ELSE LET e == CHOOSE i \in ends : \A j \in ends : i <= j
             loop_start == qs[e + 1].result.index
             u == FirstIn({i \in loop_start..e : IsInductionUpdate(qs[i + 1])})
             ind == IF u < 0 THEN "" ELSE qs[u + 1].result.name
             m == IF ind = "" THEN 0 - 1
                  ELSE FirstIn({i \in loop_start..e : IsReducibleMul(qs[i + 1], ind)})
         IN  IF m < 0
             THEN SrFrom(qs, table, counter, ends \ {e}, reallocated)
             ELSE ReduceMul(qs, table, counter, loop_start, e, ind,
                            qs[u + 1].arg2, m, reallocated)

strength_reduction(qs, table, counter, reallocated) ==
    SrFrom(qs, table, counter, BackJumps(qs), reallocated)

\* what keeping an instruction does to live_vars: erase the result, insert
\* the operands
LiveAfterKeep(q, live_vars) ==
    ((IF IsName(q.result) THEN live_vars \ {q.result.name} ELSE live_vars)
        \cup (IF IsName(q.arg1) THEN {q.arg1.name} ELSE {}))
        \cup (IF IsName(q.arg2) THEN {q.arg2.name} ELSE {})

\* is_live of the driver's dead_code_elimination
DriverIsLive(q, live_vars) ==
    \/ q.op \in {"JMP", "JPF", "CALL", "PRINT"}
    \/ IsName(q.result) /\ q.result.name \in live_vars

RECURSIVE DceFrom(_, _, _, _)
DceFrom(qs, i, live_vars, new_quads) ==
    IF i < 1
    THEN new_quads
    ELSE IF DriverIsLive(qs[i], live_vars)
         THEN DceFrom(qs, i - 1, LiveAfterKeep(qs[i], live_vars), <<qs[i]>> \o new_quads)
         ELSE DceFrom(qs, i - 1, live_vars, new_quads)

\* dead_code_elimination that assigns new_quads and returns false
dead_code_elimination_unreported(qs) ==
    [quads |-> DceFrom(qs, Len(qs), SymbolNames, <<>>), changed |-> FALSE]

dead_code_elimination(qs) ==
    LET new_quads == DceFrom(qs, Len(qs), SymbolNames, <<>>)
    IN  IF Len(new_quads) # Len(qs)
        THEN [quads |-> new_quads, changed |-> TRUE]
        ELSE [quads |-> qs, changed |-> FALSE]

-----------------------------------------------------------------------------
(* Input sequences of the fixed-point driver: every sequence of at most    *)
(* MaxLenDriver instructions over DriverMenu whose jumps target an ordinal *)
(* in [0, N].                                                              *)

C(i) == Const(i, InitialConstants)

DriverMenu ==
    {  Quad("ADD", Ident("x"), Ident("y"), Temp(0), 0),
       Quad("ADD", Ident("y"), Ident("x"), Temp(1), 0),
       Quad("ADD", C(1), C(2), Temp(0), 0),
       Quad("ADD", Ident("x"), C(1), Ident("x"), 0),
       Quad("MUL", Ident("x"), C(2), Temp(1), 0),
       Quad("ASSIGN", Temp(0), EmptyOperand, Ident("x"), 0),
       Quad("ASSIGN", Ident("x"), EmptyOperand, Ident("y"), 0),
       Quad("ASSIGN", C(1), EmptyOperand, Ident("x"), 0),
       Quad("PRINT", Temp(0), EmptyOperand, EmptyOperand, 0),
       Quad("PRINT", Ident("y"), EmptyOperand, EmptyOperand, 0) }
    \cup { Quad("JMP", EmptyOperand, EmptyOperand, Label(k), 0) : k \in 0..MaxLenDriver }
    \cup { Quad("JPF", Temp(0), EmptyOperand, Label(k), 0) : k \in 0..MaxLenDriver }

TargetsWithin(qs) ==
    \A i \in 1..Len(qs) : is_jump_op(qs[i].op) => qs[i].result.index \in 0..Len(qs)

NoPass == [name |-> "none", changed |-> FALSE]

DriverInit ==
    /\ input_quads = <<>>
    /\ quads = <<>>
    /\ constant_table = InitialConstants
    /\ pc = "input"
    /\ changed = FALSE
    /\ iterations = 0
    /\ sr_counter = 0
    /\ before_pass = <<>>
    /\ before_table = InitialConstants
    /\ last_pass = NoPass
    /\ blocks = <<>>
    /\ cur = 0
    /\ block_quads = <<>>
    /\ before_step = <<>>
    /\ garbage = "NONE"
    /\ temp_counter = 0
    /\ control = <<>>
    /\ parsed = {}
    /\ TableInit
    /\ ServerIdle

\* the caller builds the sequence, one instruction at a time
DriverInput ==
    /\ pc = "input"
    /\ Len(input_quads) < MaxLenDriver
    /\ \E q \in DriverMenu :
          input_quads' = Append(input_quads, [q EXCEPT !.ord = Len(input_quads)])
    /\ UNCHANGED <<quads, constant_table, pc, driverVars, blockVars, emitVars>>

\* Optimizer::optimize is entered: quads = input_quads, changed = true, and
\* the first evaluation of while (changed) resets the flag
DriverOptimize ==
    /\ pc = "input"
    /\ TargetsWithin(input_quads)
    /\ quads' = input_quads
    /\ changed' = FALSE
    /\ iterations' = 1
    /\ pc' = "constant_folding"
    /\ UNCHANGED <<input_quads, constant_table, sr_counter, before_pass, before_table,
                   last_pass, blockVars, emitVars>>

\* the bookkeeping every pass of the loop body shares: changed |= pass(...)
Ran(name, next, r) ==
    /\ quads' = r.quads
    /\ changed' = (changed \/ r.changed)
    /\ before_pass' = quads
    /\ before_table' = constant_table
    /\ last_pass' = [name |-> name, changed |-> r.changed]
    /\ pc' = next
    /\ UNCHANGED <<input_quads, iterations, blockVars, emitVars>>

ConstantFolding ==
    /\ pc = "constant_folding"
    /\ LET r == constant_folding(quads, constant_table)
       IN  Ran("constant_folding", "copy_propagation", r) /\ constant_table' = r.table
    /\ UNCHANGED sr_counter

CopyPropagation ==
    /\ pc = "copy_propagation"
    /\ Ran("copy_propagation", "eliminate_common_subexpressions", copy_propagation(quads))
    /\ UNCHANGED <<constant_table, sr_counter>>

EliminateCommonSubexpressions ==
    /\ pc = "eliminate_common_subexpressions"
    /\ Ran("eliminate_common_subexpressions", "loop_invariant_code_motion",
           eliminate_common_subexpressions(quads))
    /\ UNCHANGED <<constant_table, sr_counter>>

LoopInvariantCodeMotion ==
    /\ pc = "loop_invariant_code_motion"
    /\ Ran("loop_invariant_code_motion", "strength_reduction",
           loop_invariant_code_motion(quads))
    /\ UNCHANGED <<constant_table, sr_counter>>

StrengthReduction ==
    /\ pc = "strength_reduction"
    /\ \E reallocated \in BOOLEAN :
          LET r == strength_reduction(quads, constant_table, sr_counter, reallocated)
          IN  /\ Ran("strength_reduction", "dead_code_elimination", r)
              /\ constant_table' = r.table
              /\ sr_counter' = r.counter

DeadCodeElimination ==
    /\ pc = "dead_code_elimination"
    /\ Ran("dead_code_elimination", "while", dead_code_elimination(quads))
    /\ UNCHANGED <<constant_table, sr_counter>>

\* while (changed) { changed = false; ... }: another iteration
DriverIterate ==
    /\ pc = "while"
    /\ changed
    /\ iterations < MaxIterations
    /\ changed' = FALSE
    /\ iterations' = iterations + 1
    /\ pc' = "constant_folding"
    /\ UNCHANGED <<input_quads, quads, constant_table, sr_counter, before_pass,
                   before_table, last_pass, blockVars, emitVars>>

\* while (changed) is false: return quads
DriverReturn ==
    /\ pc = "while"
    /\ ~changed
    /\ pc' = "returned"
    /\ UNCHANGED <<input_quads, quads, constant_table, driverVars, blockVars, emitVars>>

DriverNext ==
    \/ DriverInput
    \/ DriverOptimize
    \/ ConstantFolding
    \/ CopyPropagation
    \/ EliminateCommonSubexpressions
    \/ LoopInvariantCodeMotion
    \/ StrengthReduction
    \/ DeadCodeElimination
    \/ DriverIterate
    \/ DriverReturn

SpecDriver == DriverInit /\ [][DriverNext]_vars

-----------------------------------------------------------------------------
(* The block optimizer (src/code_generator/CodeGenerator.h).               *)

\* Step 0, 1: the ordinals some jump names
jump_target_lines(qs) == {qs[i].result.index : i \in {j \in 1..Len(qs) : is_jump_op(qs[j].op)}}

\* Step 0, 2: line_to_label_id; ids are given in ascending order of the line
line_to_label_id(qs) ==
    LET lines == jump_target_lines(qs) \cap (0..(Len(qs) - 1))
    IN  [l \in lines |-> Cardinality({m \in lines : m < l})]

\* `Quadruple label_quad;` is default-initialized: op and result are assigned,
\* the types and indexes of arg1 and arg2 are never written.  g is the type
\* tag the storage happens to hold.
label_quad(id, g) ==
    Quad("LABEL", Operand(g, 0, ""), Operand(g, 0, ""), Label(id), 0 - 1)

RECURSIVE InsertLabels(_, _, _, _)
InsertLabels(qs, i, ids, g) ==
    IF i >= Len(qs)
    THEN <<>>
    ELSE (IF i \in DOMAIN ids THEN <<label_quad(ids[i], g)>> ELSE <<>>)
            \o <<qs[i + 1]>> \o InsertLabels(qs, i + 1, ids, g)

\* JumpToLabel leaving every jump with the line it named
JumpKeepsLine(q, ids) == q

\* Step 0, 3: a jump whose target line has a label now names the label id
JumpToLabel(q, ids) ==
    IF is_jump_op(q.op) /\ q.result.index \in DOMAIN ids
    THEN [q EXCEPT !.result = Label(ids[q.result.index])]
    ELSE q

labeled_quads(qs, g) ==
    LET ids == line_to_label_id(qs)
        with_labels == InsertLabels(qs, 0, ids, g)
    IN  [i \in 1..Len(with_labels) |-> JumpToLabel(with_labels[i], ids)]

BasicBlock(qs) ==
    [quads |-> qs, predecessors |-> {}, successors |-> {}, def |-> {}, use |-> {},
     live_in |-> {}, live_out |-> {}]

is_block_entry(qs, i) ==
    \/ i = 0
    \/ i > 0 /\ is_jump_op(qs[i].op)
    \/ is_label_op(qs[i + 1].op)

RECURSIVE SplitBlocks(_, _, _)
SplitBlocks(qs, i, current) ==
    IF i >= Len(qs)
    THEN IF current # <<>> THEN <<BasicBlock(current)>> ELSE <<>>
    ELSE LET closed == is_block_entry(qs, i) /\ current # <<>>
             cur2 == (IF closed THEN <<>> ELSE current) \o <<qs[i + 1]>>
             head == IF closed THEN <<BasicBlock(current)>> ELSE <<>>
         IN  IF is_jump_op(qs[i + 1].op)
             THEN head \o <<BasicBlock(cur2)>> \o SplitBlocks(qs, i + 1, <<>>)
             ELSE head \o SplitBlocks(qs, i + 1, cur2)

\* std::map<int, int> label_to_block: declared, read, and never written
label_to_block == <<>>

\* the successors the third step gives block i (0-based) of n blocks
Successors(bs, i) ==
    LET last_quad == bs[i + 1].quads[Len(bs[i + 1].quads)]
        target == IF last_quad.result.index \in DOMAIN label_to_block
                  THEN {label_to_block[last_quad.result.index]} ELSE {}
        next == IF i + 1 < Len(bs) THEN {i + 1} ELSE {}
    IN  IF last_quad.op = "JMP" THEN target
        ELSE IF last_quad.op = "JPF" THEN target \cup next
        ELSE next

build_basic_blocks(qs) ==
    LET bs == SplitBlocks(qs, 0, <<>>)
    IN  [i \in 1..Len(bs) |->
            [bs[i] EXCEPT !.successors = Successors(bs, i - 1),
                          !.predecessors = {j \in 0..(Len(bs) - 1) : (i - 1) \in Successors(bs, j)}]]

RECURSIVE DefUseFrom(_, _, _, _)
DefUseFrom(qs, i, use, def) ==
    IF i > Len(qs)
    THEN [use |-> use, def |-> def]
    ELSE LET q == qs[i]
             u1 == IF IsName(q.arg1) /\ q.arg1.name \notin def THEN {q.arg1.name} ELSE {}
             u2 == IF IsName(q.arg2) /\ q.arg2.name \notin def THEN {q.arg2.name} ELSE {}
             d == IF IsName(q.result) THEN {q.result.name} ELSE {}
         IN  DefUseFrom(qs, i + 1, use \cup u1 \cup u2, def \cup d)

compute_def_use_sets(bs) ==
    [i \in 1..Len(bs) |->
        LET r == DefUseFrom(bs[i].quads, 1, {}, {})
        IN  [bs[i] EXCEPT !.use = r.use, !.def = r.def]]

\* one pass of the for loop inside do { } while (changed): blocks are
\* updated in place, so a later block sees the sets just written
RECURSIVE SweepFrom(_, _, _)
SweepFrom(bs, i, ch) ==
    IF i > Len(bs)
    THEN [blocks |-> bs, changed |-> ch]
    ELSE LET b == bs[i]
             new_live_out == UNION {bs[succ + 1].live_in : succ \in b.successors}
             new_live_in == b.use \cup (new_live_out \ b.def)
             differs == new_live_in # b.live_in \/ new_live_out # b.live_out
         IN  IF differs
             THEN SweepFrom([bs EXCEPT ![i] = [b EXCEPT !.live_in = new_live_in,
                                                        !.live_out = new_live_out]],
                            i + 1, TRUE)
             ELSE SweepFrom(bs, i + 1, ch)

\* LiveSweep that never reports a change, so that the do-while takes one trip
live_sweep_unreported(bs) == [SweepFrom(bs, 1, FALSE) EXCEPT !.changed = FALSE]

\* LiveSweep that reports a change after every sweep
live_sweep_restless(bs) == [SweepFrom(bs, 1, FALSE) EXCEPT !.changed = TRUE]

LiveSweep(bs) == SweepFrom(bs, 1, FALSE)

\* the update both backward scans make to live_vars after keeping q
LiveBefore(q, live) ==
    ((IF IsName(q.result) THEN live \ {q.result.name} ELSE live)
        \cup (IF IsName(q.arg1) THEN {q.arg1.name} ELSE {}))
        \cup (IF IsName(q.arg2) THEN {q.arg2.name} ELSE {})

\* forward scan of eliminate_redundant_stores_in_block: last_def_index maps a
\* name to the 1-based position of its pending store, redundant collects the
\* positions marked is_redundant
\* RedundantFrom without last_def_index.clear() on a CALL
RECURSIVE RedundantFromThroughCalls(_, _, _, _)
RedundantFromThroughCalls(qs, i, last_def_index, redundant) ==
    IF i > Len(qs)
    THEN redundant
    ELSE LET q == qs[i]
             read == (IF q.arg1.type = "IDENTIFIER" THEN {q.arg1.name} ELSE {})
                        \cup (IF q.arg2.type = "IDENTIFIER" THEN {q.arg2.name} ELSE {})
             after_reads == [n \in (DOMAIN last_def_index) \ read |-> last_def_index[n]]
         IN  IF q.result.type = "IDENTIFIER"
             THEN RedundantFromThroughCalls(qs, i + 1,
                    [n \in (DOMAIN after_reads) \cup {q.result.name} |->
                        IF n = q.result.name THEN i ELSE after_reads[n]],
                    IF q.result.name \in DOMAIN after_reads
                    THEN redundant \cup {after_reads[q.result.name]} ELSE redundant)
             ELSE RedundantFromThroughCalls(qs, i + 1, after_reads, redundant)

RECURSIVE RedundantFrom(_, _, _, _)
RedundantFrom(qs, i, last_def_index, redundant) ==
    IF i > Len(qs)
    THEN redundant
    ELSE LET q == qs[i]
             read == (IF q.arg1.type = "IDENTIFIER" THEN {q.arg1.name} ELSE {})
                        \cup (IF q.arg2.type = "IDENTIFIER" THEN {q.arg2.name} ELSE {})
             after_reads == [n \in (DOMAIN last_def_index) \ read |-> last_def_index[n]]
             after_call == IF q.op = "CALL" THEN <<>> ELSE after_reads
         IN  IF q.result.type = "IDENTIFIER"
             THEN RedundantFrom(qs, i + 1,
                    [n \in (DOMAIN after_call) \cup {q.result.name} |->
                        IF n = q.result.name THEN i ELSE after_call[n]],
                    IF q.result.name \in DOMAIN after_call
                    THEN redundant \cup {after_call[q.result.name]} ELSE redundant)
             ELSE RedundantFrom(qs, i + 1, after_call, redundant)

RECURSIVE Keep(_, _, _)
Keep(qs, i, drop) ==
    IF i > Len(qs) THEN <<>>
    ELSE (IF i \in drop THEN <<>> ELSE <<qs[i]>>) \o Keep(qs, i + 1, drop)

eliminate_redundant_stores_in_block(qs) ==
    IF qs = <<>> THEN qs ELSE Keep(qs, 1, RedundantFrom(qs, 1, <<>>, {}))

\* Foldable_temp without the check that temp is not live after the pair
Foldable_temp_while_live(qs, i, live) ==
    /\ qs[i].op = "ASSIGN"
    /\ qs[i].arg1.type = "TEMPORARY"
    /\ qs[i].arg2.name = ""
    /\ i > 1
    /\ IsArith(qs[i - 1].op)
    /\ qs[i - 1].result.type = "TEMPORARY"
    /\ qs[i - 1].result.name = qs[i].arg1.name

\* the pattern  temp := a op b ; var := temp  at positions i - 1, i
Foldable_temp(qs, i, live) ==
    /\ qs[i].op = "ASSIGN"
    /\ qs[i].arg1.type = "TEMPORARY"
    /\ qs[i].arg2.name = ""
    /\ qs[i].arg1.name \notin live
    /\ i > 1
    /\ IsArith(qs[i - 1].op)
    /\ qs[i - 1].result.type = "TEMPORARY"
    /\ qs[i - 1].result.name = qs[i].arg1.name

\* backward scan of fold_temps_in_block from position i (1-based) down; the
\* value is final_quads already reversed into program order
RECURSIVE FoldTempsFrom(_, _, _)
FoldTempsFrom(qs, i, live) ==
    IF i < 1
    THEN <<>>
    ELSE IF Foldable_temp(qs, i, live)
         THEN LET folded_quad == [qs[i - 1] EXCEPT !.result = qs[i].result]
              IN  FoldTempsFrom(qs, i - 2, LiveBefore(folded_quad, live)) \o <<folded_quad>>
         ELSE FoldTempsFrom(qs, i - 1, LiveBefore(qs[i], live)) \o <<qs[i]>>

fold_temps_in_block(qs, live_out) ==
    IF qs = <<>> THEN qs ELSE FoldTempsFrom(qs, Len(qs), live_out)

\* the value the block optimizer computes for  v1 op v2
BlockApply(o, v1, v2) ==
    IF o = "DIV" THEN (IF ~IsZero(v2) THEN RDiv(v1, v2) ELSE Num(0)) ELSE Apply(o, v1, v2)

BlockFoldable(q) ==
    IsArith(q.op) /\ q.arg1.type = "CONSTANT" /\ q.arg2.type = "CONSTANT"

\* optimize_basic_blocks, 1: constant folding of one block
RECURSIVE BlockFoldFrom(_, _, _)
BlockFoldFrom(qs, i, table) ==
    IF i > Len(qs)
    THEN [quads |-> <<>>, table |-> table]
    ELSE IF BlockFoldable(qs[i])
         THEN LET result == BlockApply(qs[i].op, table[qs[i].arg1.index + 1],
                                       table[qs[i].arg2.index + 1])
                  r == lookup_or_add_constant(table, result)
                  new_quad == Quad("ASSIGN", Operand("CONSTANT", r.index, to_string(result)),
                                   EmptyOperand, qs[i].result, qs[i].ord)
                  rest == BlockFoldFrom(qs, i + 1, r.table)
              IN  [quads |-> <<new_quad>> \o rest.quads, table |-> rest.table]
         ELSE LET rest == BlockFoldFrom(qs, i + 1, table)
              IN  [quads |-> <<qs[i]>> \o rest.quads, table |-> rest.table]

block_constant_folding(qs, table) == BlockFoldFrom(qs, 1, table)

has_side_effect(o) == o = "PRINT" \/ o = "CALL" \/ is_jump_op(o) \/ o = "RETURN"

\* deadness decided by the live set alone, whatever the result's type, to set
\* against is_dead
is_dead_any_result(q, live) ==
    ~has_side_effect(q.op) /\ IsName(q.result) /\ q.result.name \notin live

is_dead(q, live) ==
    /\ ~has_side_effect(q.op)
    /\ q.result.type = "TEMPORARY"
    /\ q.result.name \notin live

\* optimize_basic_blocks, 3: backward scan from live_out
RECURSIVE BlockDceFrom(_, _, _)
BlockDceFrom(qs, i, live) ==
    IF i < 1
    THEN <<>>
    ELSE IF is_dead(qs[i], live)
         THEN BlockDceFrom(qs, i - 1, live)
         ELSE BlockDceFrom(qs, i - 1, LiveBefore(qs[i], live)) \o <<qs[i]>>

block_dead_code_elimination(qs, live_out) == BlockDceFrom(qs, Len(qs), live_out)

\* recompute_jump_targets
label_id_to_current_line(qs) ==
    LET ids == {qs[i].result.index : i \in {j \in 1..Len(qs) : qs[j].op = "LABEL"}}
    IN  [id \in ids |->
            (CHOOSE i \in 1..Len(qs) :
                /\ qs[i].op = "LABEL" /\ qs[i].result.index = id
                /\ \A j \in (i + 1)..Len(qs) :
                        ~(qs[j].op = "LABEL" /\ qs[j].result.index = id)) - 1]

\* no LABEL counted, to set against labels_before
labels_before_none(qs, i) == 0

\* LABEL instructions at lines 0 .. i - 1
labels_before(qs, i) == Cardinality({j \in 1..i : qs[j].op = "LABEL"})

\* targets left as lines of the labelled sequence, to set against Retarget
RetargetLabelled(q, qs) ==
    LET lines == label_id_to_current_line(qs)
        line == IF q.result.index \in DOMAIN lines THEN lines[q.result.index] ELSE Len(qs)
    IN  IF is_jump_op(q.op)
        THEN [q EXCEPT !.result = [@ EXCEPT !.index = line, !.name = ToString(line)]]
        ELSE q

\* Retarget with the end of the labelled sequence as the fallback
RetargetEndLabelled(q, qs) ==
    LET lines == label_id_to_current_line(qs)
        line == IF q.result.index \in DOMAIN lines
                THEN lines[q.result.index] - labels_before(qs, lines[q.result.index])
                ELSE Len(qs)
    IN  IF is_jump_op(q.op)
        THEN [q EXCEPT !.result = [@ EXCEPT !.index = line, !.name = ToString(line)]]
        ELSE q

Retarget(q, qs) ==
    LET lines == label_id_to_current_line(qs)
        final_quad_count == Len(qs) - labels_before(qs, Len(qs))
        line == IF q.result.index \in DOMAIN lines
                THEN lines[q.result.index] - labels_before(qs, lines[q.result.index])
                ELSE final_quad_count
    IN  IF is_jump_op(q.op)
        THEN [q EXCEPT !.result = [@ EXCEPT !.index = line, !.name = ToString(line)]]
        ELSE q

\* recompute_jump_targets without its last step
recompute_keeping_labels(qs) == [i \in 1..Len(qs) |-> Retarget(qs[i], qs)]

recompute_jump_targets(qs) ==
    SelectSeq([i \in 1..Len(qs) |-> Retarget(qs[i], qs)], LAMBDA q : q.op # "LABEL")

-----------------------------------------------------------------------------
(* The block optimizer as a machine: Optimizer::optimize step by step.      *)

BlockMenu ==
    { Quad("ADD", C(1), C(2), Temp(0), 0),
      Quad("DIV", C(1), C(0), Temp(0), 0),
      Quad("ADD", Ident("x"), Ident("y"), Temp(0), 0),
      Quad("ASSIGN", Temp(0), EmptyOperand, Ident("x"), 0),
      Quad("PRINT", Temp(0), EmptyOperand, EmptyOperand, 0) }
    \cup {Quad("JMP", EmptyOperand, EmptyOperand, Label(k), 0) : k \in 0..MaxLenBlock}
    \cup {Quad("JPF", Temp(0), EmptyOperand, Label(k), 0) : k \in 0..MaxLenBlock}

\* what the unwritten type tag of label_quad's arg1 and arg2 may hold: a tag
\* the passes treat as a name (IDENTIFIER and TEMPORARY act alike on a LABEL
\* instruction) or one they do not
GarbageTypes == {"IDENTIFIER", "NONE"}

BlockInit ==
    /\ input_quads = <<>>
    /\ quads = <<>>
    /\ constant_table = InitialConstants
    /\ pc = "input"
    /\ changed = FALSE
    /\ iterations = 0
    /\ sr_counter = 0
    /\ before_pass = <<>>
    /\ before_table = InitialConstants
    /\ last_pass = NoPass
    /\ blocks = <<>>
    /\ cur = 0
    /\ block_quads = <<>>
    /\ before_step = <<>>
    /\ garbage = "NONE"
    /\ temp_counter = 0
    /\ control = <<>>
    /\ parsed = {}
    /\ TableInit
    /\ ServerIdle

BlockInput ==
    /\ pc = "input"
    /\ Len(input_quads) < MaxLenBlock
    /\ \E q \in BlockMenu :
            input_quads' = Append(input_quads, [q EXCEPT !.ord = Len(input_quads)])
    /\ UNCHANGED <<quads, constant_table, pc, driverVars, blockVars, emitVars>>

\* Optimizer::optimize, the early return and step 0; the storage label_quad
\* gets holds whatever tag was there when the call creates the first one
LowerLabels ==
    /\ pc = "input"
    /\ TargetsWithin(input_quads)
    /\ garbage' \in (IF DOMAIN line_to_label_id(input_quads) = {}
                     THEN {garbage} ELSE GarbageTypes)
    /\ IF input_quads = <<>>
       THEN quads' = <<>> /\ pc' = "returned"
       ELSE quads' = labeled_quads(input_quads, garbage') /\ pc' = "build_basic_blocks"
    /\ UNCHANGED <<input_quads, constant_table, driverVars, blocks, cur, block_quads,
                   before_step, emitVars>>

BuildBasicBlocks ==
    /\ pc = "build_basic_blocks"
    /\ blocks' = build_basic_blocks(quads)
    /\ pc' = "compute_def_use_sets"
    /\ UNCHANGED <<input_quads, quads, constant_table, driverVars, cur, block_quads,
                   before_step, garbage, emitVars>>

ComputeDefUseSets ==
    /\ pc = "compute_def_use_sets"
    /\ blocks' = compute_def_use_sets(blocks)
    /\ pc' = "compute_live_variables"
    /\ UNCHANGED <<input_quads, quads, constant_table, driverVars, cur, block_quads,
                   before_step, garbage, emitVars>>

\* one trip of the do-while of compute_live_variables; the trip that changes
\* nothing leaves the loop and optimize_basic_blocks starts on block 0
ComputeLiveVariables ==
    /\ pc = "compute_live_variables"
    /\ LET r == LiveSweep(blocks)
       IN  /\ blocks' = r.blocks
           /\ IF r.changed
              THEN UNCHANGED <<pc, quads, cur, block_quads>>
              ELSE /\ pc' = "eliminate_redundant_stores"
                   /\ quads' = <<>>
                   /\ cur' = 0
                   /\ block_quads' = blocks[1].quads
    /\ UNCHANGED <<input_quads, constant_table, driverVars, before_step, garbage, emitVars>>

BlockStep(name, next, new_quads) ==
    /\ pc = name
    /\ before_step' = block_quads
    /\ block_quads' = new_quads
    /\ pc' = next

EliminateRedundantStores ==
    /\ BlockStep("eliminate_redundant_stores", "fold_temps",
                 eliminate_redundant_stores_in_block(block_quads))
    /\ UNCHANGED <<input_quads, quads, constant_table, driverVars, blocks, cur, garbage, emitVars>>

FoldTemps ==
    /\ BlockStep("fold_temps", "block_constant_folding",
                 fold_temps_in_block(block_quads, blocks[cur + 1].live_out))
    /\ UNCHANGED <<input_quads, quads, constant_table, driverVars, blocks, cur, garbage, emitVars>>

BlockConstantFolding ==
    /\ LET r == block_constant_folding(block_quads, constant_table)
       IN  /\ BlockStep("block_constant_folding", "block_dead_code_elimination", r.quads)
           /\ constant_table' = r.table
    /\ before_table' = constant_table
    /\ UNCHANGED <<input_quads, quads, changed, iterations, sr_counter, before_pass,
                   last_pass, blocks, cur, garbage, emitVars>>

\* the backward scan, then the block's quads join optimized_quads and the
\* for loop moves to the next block or ends
BlockDeadCodeElimination ==
    /\ pc = "block_dead_code_elimination"
    /\ LET final_block_quads ==
                block_dead_code_elimination(block_quads, blocks[cur + 1].live_out)
       IN  /\ before_step' = block_quads
           /\ quads' = quads \o final_block_quads
           /\ IF cur + 1 < Len(blocks)
              THEN /\ cur' = cur + 1
                   /\ block_quads' = blocks[cur + 2].quads
                   /\ pc' = "eliminate_redundant_stores"
              ELSE /\ cur' = cur
                   /\ block_quads' = final_block_quads
                   /\ pc' = "recompute_jump_targets"
    /\ UNCHANGED <<input_quads, constant_table, driverVars, blocks, garbage, emitVars>>

RecomputeJumpTargets ==
    /\ pc = "recompute_jump_targets"
    /\ quads' = recompute_jump_targets(quads)
    /\ before_pass' = quads
    /\ pc' = "returned"
    /\ UNCHANGED <<input_quads, constant_table, changed, iterations, sr_counter,
                   before_table, last_pass, blockVars, emitVars>>

BlockNext ==
    \/ BlockInput
    \/ LowerLabels
    \/ BuildBasicBlocks
    \/ ComputeDefUseSets
    \/ ComputeLiveVariables
    \/ EliminateRedundantStores
    \/ FoldTemps
    \/ BlockConstantFolding
    \/ BlockDeadCodeElimination
    \/ RecomputeJumpTargets

SpecBlock == BlockInit /\ [][BlockNext]_vars

-----------------------------------------------------------------------------
(* The folding step of optimize_basic_blocks on blocks of constant          *)
(* arithmetic: every operator on every pair of pooled constants.            *)

FoldMenu ==
    { Quad(o, C(i), C(j), Temp(0), 0) :
        o \in {"ADD", "SUB", "MUL", "DIV"},
        i \in 0..(Len(InitialConstants) - 1), j \in 0..(Len(InitialConstants) - 1) }

FoldInit ==
    /\ input_quads = <<>>
    /\ quads = <<>>
    /\ constant_table = InitialConstants
    /\ pc = "block"
    /\ changed = FALSE
    /\ iterations = 0
    /\ sr_counter = 0
    /\ before_pass = <<>>
    /\ before_table = InitialConstants
    /\ last_pass = NoPass
    /\ blocks = <<>>
    /\ cur = 0
    /\ block_quads = <<>>
    /\ before_step = <<>>
    /\ garbage = "NONE"
    /\ temp_counter = 0
    /\ control = <<>>
    /\ parsed = {}
    /\ TableInit
    /\ ServerIdle

\* the block the for loop of optimize_basic_blocks is about to fold
FoldInput ==
    /\ pc = "block"
    /\ Len(block_quads) < MaxLenFold
    /\ \E q \in FoldMenu :
            block_quads' = Append(block_quads, [q EXCEPT !.ord = Len(block_quads)])
    /\ UNCHANGED <<input_quads, quads, constant_table, pc, driverVars, blocks, cur,
                   before_step, garbage, emitVars>>

\* the loop reaches the folding step with that block
FoldEnter ==
    /\ pc = "block"
    /\ block_quads # <<>>
    /\ blocks' = <<BasicBlock(block_quads)>>
    /\ pc' = "block_constant_folding"
    /\ UNCHANGED <<input_quads, quads, constant_table, driverVars, cur, block_quads,
                   before_step, garbage, emitVars>>

FoldNext ==
    \/ FoldInput
    \/ FoldEnter
    \/ BlockConstantFolding

SpecFold == FoldInit /\ [][FoldNext]_vars

-----------------------------------------------------------------------------
(* Properties of the fixed-point driver.                                    *)

\* C1: for every finite input the driver reaches an iteration in which no
\* pass reports a change and returns, and the number of iterations it runs
\* is bounded by the length of the input (the closing iteration that only
\* observes that nothing changed is allowed on top of that length).
C1_IterationsBoundedByLength ==
    iterations <= Len(input_quads) + 1

Survives(qs, o) == \E i \in 1..Len(qs) : qs[i].ord = o

\* the ordinal in qs of the instruction whose input identity is o
OrdinalOf(qs, o) == (CHOOSE i \in 1..Len(qs) : qs[i].ord = o) - 1

\* where a jump that named ordinal t of `before` has to point in `after`:
\* at the same instruction, at the next one that survives when it was
\* removed, one past the end when nothing after it survives
SameTarget(before, after, t) ==
    LET later == {k \in (t + 1)..Len(before) : Survives(after, before[k].ord)}
    IN  IF later = {}
        THEN Len(after)
        ELSE OrdinalOf(after, before[CHOOSE k \in later : \A m \in later : k <= m].ord)

MovesInstructions(name) ==
    name \in {"loop_invariant_code_motion", "strength_reduction", "dead_code_elimination"}

\* C4: after a driver pass that inserts or removes instructions, every
\* JUMP/JUMP_IF_FALSE targets the instruction it targeted before the pass,
\* or the next surviving instruction when that one was removed.
C4_JumpsKeepTheirTarget ==
    MovesInstructions(last_pass.name) =>
        \A j \in 1..Len(quads) :
            (is_jump_op(quads[j].op) /\ Survives(before_pass, quads[j].ord)) =>
                LET was == before_pass[OrdinalOf(before_pass, quads[j].ord) + 1]
                IN  is_jump_op(was.op) =>
                        quads[j].result.index = SameTarget(before_pass, quads, was.result.index)

\* has a side effect, in the words of the claim: PRINT, CALL, RETURN, a jump
SideEffect(q) == q.op \in {"PRINT", "CALL", "RETURN", "RET", "JMP", "JPF"}

DefinesIdentifier(q) == q.result.type = "IDENTIFIER" /\ q.result.name # ""

\* C8: dead-code elimination always keeps an instruction with a side effect
\* and always keeps an instruction whose result is a user Identifier.  Read
\* on the driver's dead_code_elimination: every such instruction of the
\* sequence the pass was given is in the sequence it leaves.
C8_DriverKeepsEffectsAndIdentifiers ==
    last_pass.name = "dead_code_elimination" =>
        \A i \in 1..Len(before_pass) :
            (SideEffect(before_pass[i]) \/ DefinesIdentifier(before_pass[i]))
                => Survives(quads, before_pass[i].ord)

\* the input is  t := a op b ; x := t  with a, b constants, op one of ADD,
\* SUB, MUL, t a Temporary and x an Identifier
IsFoldThenStore(qs) ==
    /\ Len(qs) = 2
    /\ qs[1].op \in {"ADD", "SUB", "MUL"}
    /\ qs[1].arg1.type = "CONSTANT" /\ qs[1].arg2.type = "CONSTANT"
    /\ qs[1].result.type = "TEMPORARY"
    /\ qs[2].op = "ASSIGN" /\ qs[2].arg1 = qs[1].result
    /\ qs[2].result.type = "IDENTIFIER" /\ qs[2].result.name # ""

\* a op b on the pooled values, for the three operators of the claims
Exact(o, a, b) ==
    IF o = "ADD" THEN RAdd(a, b) ELSE IF o = "SUB" THEN RSub(a, b) ELSE RMul(a, b)

\* qs is the single instruction  x := CONST(a op b)  for that input
IsStoreOfFolded(qs, input, table) ==
    /\ Len(qs) = 1
    /\ qs[1].op = "ASSIGN"
    /\ qs[1].result = input[2].result
    /\ qs[1].arg1.type = "CONSTANT"
    /\ ValidIndex(qs[1].arg1.index, table)
    /\ table[qs[1].arg1.index + 1] =
            Exact(input[1].op, InitialConstants[input[1].arg1.index + 1],
                  InitialConstants[input[1].arg2.index + 1])

\* C10: Optimizer::optimize applied to  t := a op b ; x := t  returns the
\* single instruction  x := CONST(a op b).  Read on the fixed-point driver.
C10_DriverFoldsThenStores ==
    (pc = "returned" /\ IsFoldThenStore(input_quads))
        => IsStoreOfFolded(quads, input_quads, constant_table)

-----------------------------------------------------------------------------
(* Properties of the block optimizer.                                       *)

\* C3: for an input of length N whose jump targets are ordinals in [0, N],
\* every JMP/JPF of the sequence Optimizer::optimize returns has
\* result.index in [0, len], len the length of the returned sequence.
C3_ReturnedTargetsInRange ==
    pc = "returned" =>
        \A j \in 1..Len(quads) :
            is_jump_op(quads[j].op) => quads[j].result.index \in 0..Len(quads)

\* an optimization removed an instruction and jumps to a label and to the
\* end of the input both came back
C3_Witness ==
    /\ pc = "returned"
    /\ Len(quads) < Len(input_quads)
    /\ \E j \in 1..Len(quads) : is_jump_op(quads[j].op) /\ quads[j].result.index = Len(quads)
    /\ \E j \in 1..Len(quads) :
            is_jump_op(quads[j].op) /\ quads[j].result.index \in 1..(Len(quads) - 1)

IsConstantDiv(q) ==
    q.op = "DIV" /\ q.arg1.type = "CONSTANT" /\ q.arg2.type = "CONSTANT"

\* C5: a DIV whose two operands are CONSTANT is folded if and only if the
\* pooled value of its divisor is not 0; with a divisor of 0 the instruction
\* stays as it was (a DIV with the same operands and result).  Read on the
\* constant folding step of a block, position by position.
C5_DivFoldedIffDivisorNonzero ==
    pc = "block_dead_code_elimination" =>
        \A i \in 1..Len(before_step) :
            IsConstantDiv(before_step[i]) =>
                IF IsZero(before_table[before_step[i].arg2.index + 1])
                THEN block_quads[i] = before_step[i]
                ELSE block_quads[i].op = "ASSIGN"

IsConstantArith(q) ==
    q.op \in {"ADD", "SUB", "MUL"} /\ q.arg1.type = "CONSTANT" /\ q.arg2.type = "CONSTANT"

\* C6: constant folding rewrites every ADD, SUB or MUL whose operands are
\* CONSTANT with pooled values a and b into an ASSIGN whose arg1 is a
\* CONSTANT with an index valid in the pool and a pooled value of a op b,
\* and leaves the result operand as it was.
C6_FoldedValueIsExact ==
    pc = "block_dead_code_elimination" =>
        \A i \in 1..Len(before_step) :
            IsConstantArith(before_step[i]) =>
                /\ block_quads[i].op = "ASSIGN"
                /\ block_quads[i].arg1.type = "CONSTANT"
                /\ ValidIndex(block_quads[i].arg1.index, constant_table)
                /\ constant_table[block_quads[i].arg1.index + 1] =
                        Exact(before_step[i].op,
                              before_table[before_step[i].arg1.index + 1],
                              before_table[before_step[i].arg2.index + 1])
                /\ block_quads[i].result = before_step[i].result

\* a block held a SUB and a MUL of constants; one result was new to the pool
\* and one was already in it
C6_Witness ==
    /\ pc = "block_dead_code_elimination"
    /\ Len(constant_table) > Len(before_table)
    /\ \E i, j \in 1..Len(before_step) :
            /\ IsConstantArith(before_step[i]) /\ before_step[i].op = "SUB"
            /\ IsConstantArith(before_step[j]) /\ before_step[j].op = "MUL"
            /\ block_quads[j].arg1.index < Len(before_table)
            /\ block_quads[i].arg1.index >= Len(before_table)

\* the names instruction q reads
Reads(q) ==
    ((IF IsName(q.arg1) THEN {q.arg1.name} ELSE {})
        \cup (IF IsName(q.arg2) THEN {q.arg2.name} ELSE {})) \ {""}

Defines(q, n) == IsName(q.result) /\ q.result.name = n

\* control flow of a sequence with ordinal jump targets: where execution can
\* go from ordinal i (fall-through, JMP target, JPF target)
Flow(qs, i) ==
    (IF qs[i + 1].op = "JMP" THEN {qs[i + 1].result.index}
     ELSE IF qs[i + 1].op = "JPF" THEN {qs[i + 1].result.index, i + 1}
     ELSE {i + 1}) \cap (0..(Len(qs) - 1))

RECURSIVE FlowClosure(_, _)
FlowClosure(qs, seen) ==
    LET more == seen \cup UNION {Flow(qs, i) : i \in seen}
    IN  IF more = seen THEN seen ELSE FlowClosure(qs, more)

\* some control-flow path of one step or more leads from ordinal i to j
Reaches(qs, i, j) == j \in FlowClosure(qs, Flow(qs, i))

\* C7: after the dead-code elimination of Optimizer::optimize, along every
\* control-flow path of the input (fall-through, JMP target, JPF target), no
\* surviving instruction reads a Temporary or Identifier all of whose
\* defining instructions were removed: when a definition of the name lies
\* on a path to the reading instruction, the returned sequence still holds
\* an instruction that defines the name.
C7_NoReadOfRemovedDefinition ==
    pc = "returned" =>
        \A j \in 1..Len(quads) : \A n \in Reads(quads[j]) :
            (\E i \in 1..Len(input_quads) :
                    Defines(input_quads[i], n) /\ Reaches(input_quads, i - 1, quads[j].ord))
                => \E k \in 1..Len(quads) : Defines(quads[k], n)

-----------------------------------------------------------------------------
(* The emitter (src/parser/Parser.cpp): the quadruples the parser appends   *)
(* for assignments, print statements, if-then[-else] and while-do, then    *)
(* the block optimizer applied to them.  input_quads is Parser::quadruples. *)

new_temp(counter) == Operand("TEMPORARY", counter, "t" \o ToString(counter))

emit(qs, o, a1, a2, r) == Append(qs, Quad(o, a1, a2, r, Len(qs)))

\* backpatch with the ordinal of the last instruction for the one after it
backpatch_short(qs, quad_index, target_label) ==
    [qs EXCEPT ![quad_index + 1].result = Label(target_label - 1)]

backpatch(qs, quad_index, target_label) ==
    [qs EXCEPT ![quad_index + 1].result = Label(target_label)]

\* an expression of the source text, as the tree expression(), term() and
\* factor() walk: an operand, or [op, left, right]
Bin(o, l, r) == [op |-> o, left |-> l, right |-> r]

IsFactor(e) == "type" \in DOMAIN e

\* expression()/term(): the left operand first, then the right one, then a
\* fresh temporary receives the result
RECURSIVE expression(_, _, _)
expression(e, qs, counter) ==
    IF IsFactor(e)
    THEN [quads |-> qs, counter |-> counter, place |-> e]
    ELSE LET l == expression(e.left, qs, counter)
             r == expression(e.right, l.quads, l.counter)
             new_result == new_temp(r.counter)
         IN  [quads |-> emit(r.quads, e.op, l.place, r.place, new_result),
              counter |-> r.counter + 1, place |-> new_result]

\* condition(): <Expression> <RelationalOp> <Expression>
condition(c, qs, counter) == expression(c, qs, counter)

RECURSIVE Size(_)
Size(e) == IF IsFactor(e) THEN 0 ELSE 1 + Size(e.left) + Size(e.right)

ExpressionMenu ==
    { C(1),
      Bin("ADD", Ident("x"), C(1)),
      Bin("MUL", C(1), C(2)),
      Bin("DIV", C(2), C(0)) }

ConditionMenu == { Bin("LT", Ident("x"), C(2)) }

PrintMenu == { Ident("x"), Bin("MUL", C(1), C(2)) }

AssignTargets == {Ident("x")}

Frame(k, q, start) == [kind |-> k, quad |-> q, loop_start |-> start]

\* instructions the statements still open will append when they close
Owed(stack) == Cardinality({i \in 1..Len(stack) : stack[i].kind = "while"})

Room(n) == Len(input_quads) + n + Owed(control) <= MaxLenEmit

EmitInit ==
    /\ input_quads = <<>>
    /\ quads = <<>>
    /\ constant_table = InitialConstants
    /\ pc = "parse"
    /\ changed = FALSE
    /\ iterations = 0
    /\ sr_counter = 0
    /\ before_pass = <<>>
    /\ before_table = InitialConstants
    /\ last_pass = NoPass
    /\ blocks = <<>>
    /\ cur = 0
    /\ block_quads = <<>>
    /\ before_step = <<>>
    /\ garbage = "NONE"
    /\ temp_counter = 0
    /\ control = <<>>
    /\ parsed = {}
    /\ TableInit
    /\ ServerIdle

Parsing(qs, counter, stack) ==
    /\ input_quads' = qs
    /\ temp_counter' = counter
    /\ control' = stack
    /\ parsed' = parsed \cup
            {[frame |-> control[k], end |-> Len(qs)] :
                k \in {i \in 1..Len(control) : i > Len(stack) \/ stack[i] # control[i]}}
    /\ UNCHANGED <<quads, constant_table, pc, driverVars, blockVars, tableVars, serverVars>>

assignment_statement ==
    /\ pc = "parse"
    /\ \E left \in AssignTargets, e \in ExpressionMenu :
          /\ Room(Size(e) + 1)
          /\ LET right == expression(e, input_quads, temp_counter)
             IN  Parsing(emit(right.quads, "ASSIGN", right.place, EmptyOperand, left),
                         right.counter, control)

print_statement ==
    /\ pc = "parse"
    /\ \E e \in PrintMenu :
          /\ Room(Size(e) + 1)
          /\ LET expr_to_print == expression(e, input_quads, temp_counter)
             IN  Parsing(emit(expr_to_print.quads, "PRINT", expr_to_print.place,
                              EmptyOperand, EmptyOperand),
                         expr_to_print.counter, control)

\* if_statement up to the statement after `then`
if_then ==
    /\ pc = "parse"
    /\ \E c \in ConditionMenu :
          /\ Room(Size(c) + 1)
          /\ LET cond == condition(c, input_quads, temp_counter)
                 false_jump_quad == Len(cond.quads)
             IN  Parsing(emit(cond.quads, "JPF", cond.place, EmptyOperand, EmptyOperand),
                         cond.counter, Append(control, Frame("if", false_jump_quad, 0)))

\* if_statement at `else`
if_else ==
    /\ pc = "parse"
    /\ control # <<>>
    /\ control[Len(control)].kind = "if"
    /\ Room(1)
    /\ LET skip_else_quad == Len(input_quads)
           jump == emit(input_quads, "JMP", EmptyOperand, EmptyOperand, EmptyOperand)
       IN  Parsing(backpatch(jump, control[Len(control)].quad, Len(jump)), temp_counter,
                   [control EXCEPT ![Len(control)] = Frame("else", skip_else_quad, 0)])

\* if_statement after its last statement: the pending jump is backpatched
if_end ==
    /\ pc = "parse"
    /\ control # <<>>
    /\ control[Len(control)].kind \in {"if", "else"}
    /\ Parsing(backpatch(input_quads, control[Len(control)].quad, Len(input_quads)),
               temp_counter, SubSeq(control, 1, Len(control) - 1))

\* while_statement up to the statement after `do`
while_do ==
    /\ pc = "parse"
    /\ \E c \in ConditionMenu :
          /\ Room(Size(c) + 2)
          /\ LET loop_start == Len(input_quads)
                 cond == condition(c, input_quads, temp_counter)
                 false_jump_quad == Len(cond.quads)
             IN  Parsing(emit(cond.quads, "JPF", cond.place, EmptyOperand, EmptyOperand),
                         cond.counter,
                         Append(control, Frame("while", false_jump_quad, loop_start)))

\* while_statement after its body
while_end ==
    /\ pc = "parse"
    /\ control # <<>>
    /\ control[Len(control)].kind = "while"
    /\ LET top == control[Len(control)]
           jump == emit(input_quads, "JMP", EmptyOperand, EmptyOperand, Label(top.loop_start))
       IN  Parsing(backpatch(jump, top.quad, Len(jump)), temp_counter,
                   SubSeq(control, 1, Len(control) - 1))

\* the program text ends and the quadruples go to Optimizer::optimize
ParseDone ==
    /\ pc = "parse"
    /\ control = <<>>
    /\ pc' = "input"
    /\ UNCHANGED <<input_quads, quads, constant_table, driverVars, blockVars, emitVars>>

EmitNext ==
    \/ assignment_statement
    \/ print_statement
    \/ if_then
    \/ if_else
    \/ if_end
    \/ while_do
    \/ while_end
    \/ ParseDone
    \/ LowerLabels
    \/ BuildBasicBlocks
    \/ ComputeDefUseSets
    \/ ComputeLiveVariables
    \/ EliminateRedundantStores
    \/ FoldTemps
    \/ BlockConstantFolding
    \/ BlockDeadCodeElimination
    \/ RecomputeJumpTargets

SpecEmit == EmitInit /\ [][EmitNext]_vars

-----------------------------------------------------------------------------
(* Properties of emitted programs.  Executing a sequence: instructions run  *)
(* from ordinal 0, a CONSTANT operand stands for its pooled value, a        *)
(* relational operator yields 1 or 0, JPF jumps when its operand is 0, and  *)
(* the run ends when the ordinal leaves the sequence.                       *)

Value(a, store, table) ==
    IF a.type = "CONSTANT" THEN table[a.index + 1]
    ELSE IF a.name \in DOMAIN store THEN store[a.name] ELSE Num(0)

Put(store, n, v) == [m \in DOMAIN store \cup {n} |-> IF m = n THEN v ELSE store[m]]

Compute(o, a, b) ==
    CASE o = "ADD" -> RAdd(a, b)
      [] o = "SUB" -> RSub(a, b)
      [] o = "MUL" -> RMul(a, b)
      [] o = "DIV" -> RDiv(a, b)
      [] o = "LT" -> IF RLess(a, b) THEN Num(1) ELSE Num(0)
      [] o = "LE" -> IF RLess(b, a) THEN Num(0) ELSE Num(1)
      [] o = "GT" -> IF RLess(b, a) THEN Num(1) ELSE Num(0)
      [] o = "GE" -> IF RLess(a, b) THEN Num(0) ELSE Num(1)
      [] o = "EQ" -> IF a = b THEN Num(1) ELSE Num(0)
      [] o = "NE" -> IF a = b THEN Num(0) ELSE Num(1)

Computes(o) == o \in {"ADD", "SUB", "MUL", "DIV", "LT", "LE", "GT", "GE", "EQ", "NE"}

Outcome(status, out, store, steps) ==
    [status |-> status, out |-> out, store |-> store, steps |-> steps]

RECURSIVE Run(_, _, _, _, _, _)
Run(qs, table, store, at, out, steps) ==
    IF at < 0 \/ at >= Len(qs) THEN Outcome("halted", out, store, steps)
    ELSE IF steps >= MaxSteps THEN Outcome("running", out, store, steps)
    ELSE LET q == qs[at + 1]
             a == Value(q.arg1, store, table)
             b == Value(q.arg2, store, table)
         IN  IF q.op = "DIV" /\ IsZero(b) THEN Outcome("zero divisor", out, store, steps)
             ELSE IF Computes(q.op)
                  THEN Run(qs, table, Put(store, q.result.name, Compute(q.op, a, b)),
                           at + 1, out, steps + 1)
             ELSE IF q.op = "ASSIGN"
                  THEN Run(qs, table, Put(store, q.result.name, a), at + 1, out, steps + 1)
             ELSE IF q.op = "PRINT"
                  THEN Run(qs, table, store, at + 1, Append(out, a), steps + 1)
             ELSE IF q.op = "JMP"
                  THEN Run(qs, table, store, q.result.index, out, steps + 1)
             ELSE IF q.op = "JPF"
                  THEN Run(qs, table, store, IF IsZero(a) THEN q.result.index ELSE at + 1,
                           out, steps + 1)
             ELSE Run(qs, table, store, at + 1, out, steps + 1)

Execute(qs, store) == Run(qs, constant_table, store, 0, <<>>, 0)

\* the values the Identifiers hold when the program starts
InitialStores == {[n \in SymbolNames |-> IF n = "x" THEN v ELSE Num(0)] : v \in {Num(0), Num(3)}}

IdentifierValues(store) == [n \in SymbolNames |-> store[n]]

IsWhileJump(qs, i) == qs[i + 1].op = "JMP" /\ qs[i + 1].result.index <= i

C9_WhileJumpNamesConditionStart ==
    pc = "returned" =>
        \A j \in 1..Len(quads) :
            (quads[j].op = "JMP" /\ IsWhileJump(input_quads, quads[j].ord)) =>
                LET loop_start == input_quads[quads[j].ord + 1].result.index
                IN  /\ Survives(quads, loop_start)
                    /\ quads[j].result.index = OrdinalOf(quads, loop_start)

\* instructions before the loop were merged, so the condition starts at
\* another ordinal than in the input, and not at ordinal 0
C9_Witness ==
    /\ pc = "returned"
    /\ \E j \in 1..Len(quads) :
            /\ quads[j].op = "JMP" /\ IsWhileJump(input_quads, quads[j].ord)
            /\ quads[j].result.index # input_quads[quads[j].ord + 1].result.index
            /\ quads[j].result.index > 0

-----------------------------------------------------------------------------
(* The passes of the fixed-point driver as functions of a sequence: one     *)
(* pass applied to every sequence of at most MaxLenPass instructions over   *)
(* PassMenu whose jumps target an ordinal in [0, N].                        *)

PassMenu ==
    {  Quad("ADD", Ident("x"), Ident("y"), Temp(0), 0),
       Quad("ADD", Ident("y"), Ident("x"), Temp(1), 0),
       Quad("ADD", Ident("x"), C(1), Ident("x"), 0),
       Quad("SUB", Ident("x"), Ident("y"), Temp(0), 0),
       Quad("MUL", Ident("x"), C(2), Temp(1), 0),
       Quad("ASSIGN", C(1), EmptyOperand, Temp(0), 0),
       Quad("ASSIGN", Temp(0), EmptyOperand, Ident("y"), 0),
       Quad("PRINT", Temp(0), EmptyOperand, EmptyOperand, 0) }
    \cup { Quad("JMP", EmptyOperand, EmptyOperand, Label(k), 0) : k \in 0..MaxLenPass }
    \cup { Quad("JPF", Temp(0), EmptyOperand, Label(k), 0) : k \in 0..MaxLenPass }

PassInit ==
    /\ input_quads = <<>>
    /\ quads = <<>>
    /\ constant_table = InitialConstants
    /\ pc = "pass"
    /\ changed = FALSE
    /\ iterations = 0
    /\ sr_counter = 0
    /\ before_pass = <<>>
    /\ before_table = InitialConstants
    /\ last_pass = NoPass
    /\ blocks = <<>>
    /\ cur = 0
    /\ block_quads = <<>>
    /\ before_step = <<>>
    /\ garbage = "NONE"
    /\ temp_counter = 0
    /\ control = <<>>
    /\ parsed = {}
    /\ TableInit
    /\ ServerIdle

\* the sequence a pass is about to be given
PassInput ==
    /\ pc = "pass"
    /\ Len(quads) < MaxLenPass
    /\ \E q \in PassMenu : quads' = Append(quads, [q EXCEPT !.ord = Len(quads)])
    /\ input_quads' = quads'
    /\ UNCHANGED <<constant_table, pc, driverVars, blockVars, emitVars>>

\* changed |= pass(quads), for a pass that leaves the symbol table alone
PassRan(name, next, r) ==
    /\ Ran(name, next, r)
    /\ UNCHANGED <<constant_table, sr_counter>>

PassLoopInvariantCodeMotion ==
    /\ pc = "pass"
    /\ TargetsWithin(quads)
    /\ PassRan("loop_invariant_code_motion", "passed", loop_invariant_code_motion(quads))

PassEliminateCommonSubexpressions ==
    /\ pc = "pass"
    /\ TargetsWithin(quads)
    /\ PassRan("eliminate_common_subexpressions", "once",
               eliminate_common_subexpressions(quads))

\* the same pass again, with no other pass between
PassEliminateCommonSubexpressionsAgain ==
    /\ pc = "once"
    /\ PassRan("eliminate_common_subexpressions", "twice",
               eliminate_common_subexpressions(quads))

\* the same pass again, with no other pass between
PassLoopInvariantCodeMotionAgain ==
    /\ pc = "passed"
    /\ PassRan("loop_invariant_code_motion", "passed twice", loop_invariant_code_motion(quads))

PassCopyPropagation ==
    /\ pc = "pass"
    /\ TargetsWithin(quads)
    /\ PassRan("copy_propagation", "propagated", copy_propagation(quads))

\* the pass writes the constant pool and its static counter as well
PassStrengthReduction ==
    /\ pc = "pass"
    /\ TargetsWithin(quads)
    /\ \E reallocated \in BOOLEAN :
          LET r == strength_reduction(quads, constant_table, sr_counter, reallocated)
          IN  /\ Ran("strength_reduction", "reduced", r)
              /\ constant_table' = r.table
              /\ sr_counter' = r.counter

PassNext ==
    \/ PassInput
    \/ PassLoopInvariantCodeMotion
    \/ PassEliminateCommonSubexpressions
    \/ PassEliminateCommonSubexpressionsAgain
    \/ PassLoopInvariantCodeMotionAgain
    \/ PassCopyPropagation
    \/ PassStrengthReduction

SpecPass == PassInit /\ [][PassNext]_vars

-----------------------------------------------------------------------------
(* Properties of single passes.                                             *)

\* the names assigned by the instructions at ordinals lo..hi of qs
AssignedIn(qs, lo, hi) ==
    {n \in {qs[i + 1].result.name : i \in lo..hi} :
        \E i \in lo..hi : Defines(qs[i + 1], n)}

\* ADD/SUB/MUL/DIV whose operands are each a CONSTANT or a name outside `assigned`
Hoistable(q, assigned) ==
    /\ q.op \in {"ADD", "SUB", "MUL", "DIV"}
    /\ \A o \in {q.arg1, q.arg2} : o.type = "CONSTANT" \/ o.name \notin assigned

\* the ordinal an instruction at ordinal i has after the range [t, e] was
\* rewritten with `moved` the ordinals taken out of it: the moved ones first,
\* from t on, in their order, then the others of the range in their order;
\* every instruction outside the range where it was
PlaceAfterHoist(i, t, e, moved) ==
    IF i < t \/ i > e THEN i
    ELSE IF i \in moved THEN t + Cardinality({k \in moved : k < i})
    ELSE t + Cardinality(moved) + Cardinality({k \in (t..e) \ moved : k < i})

\* C11: when loop_invariant_code_motion rewrites a detected range
\* [target, jump_index], every ADD/SUB/MUL/DIV of the range whose operands
\* are each a CONSTANT or a name assigned nowhere in the range is taken out
\* and re-inserted at the range start, the moved instructions in their
\* relative order, all others in theirs, and no instruction is added, lost
\* or duplicated.
C11_HoistedToRangeStartInOrder ==
    (pc = "passed" /\ last_pass.changed) =>
        \E e \in BackJumps(before_pass) :
            LET t == before_pass[e + 1].result.index
                assigned == AssignedIn(before_pass, t, e)
                moved == {i \in t..e : Hoistable(before_pass[i + 1], assigned)}
            IN  /\ moved # {}
                /\ Len(quads) = Len(before_pass)
                /\ \A i \in 0..(Len(before_pass) - 1) :
                        quads[PlaceAfterHoist(i, t, e, moved) + 1] = before_pass[i + 1]

\* a range was rewritten and an instruction changed its place
C11_Witness ==
    /\ pc = "passed"
    /\ last_pass.changed
    /\ quads # before_pass

\* C12: running eliminate_common_subexpressions twice in a row with no
\* other pass between reports no change on the second run and leaves the
\* sequence exactly as the first run produced it.
C12_SecondCseChangesNothing ==
    pc = "twice" => (~last_pass.changed /\ quads = before_pass)

\* the second run was given a sequence the first run had rewritten
C12_Witness ==
    /\ pc = "twice"
    /\ before_pass # input_quads
    /\ \E i \in 1..Len(before_pass) : IsArith(before_pass[i].op)

\* instruction q computes  a op b  (operands in either order for ADD/MUL)
ComputesExpression(q, op, a, b) ==
    /\ q.op = op
    /\ \/ (q.arg1.name = a /\ q.arg2.name = b)
       \/ (op \in {"ADD", "MUL"} /\ q.arg1.name = b /\ q.arg2.name = a)

\* after q, h holds a op b: q assigns its value to h and overwrites neither operand
Establishes(q, op, a, b, h) ==
    ComputesExpression(q, op, a, b) /\ Defines(q, h) /\ h \notin {a, b}

\* q assigns a, b or h without establishing the fact
Overwrites(q, op, a, b, h) ==
    (\E n \in {a, b, h} : Defines(q, n)) /\ ~Establishes(q, op, a, b, h)

\* The ordinals some execution path from ordinal 0 reaches in a state where
\* "h holds a op b" does not stand: h not yet assigned by such a
\* computation, or a, b or h assigned since.  Least fixed point from `stale`.
RECURSIVE StaleAt(_, _, _, _, _, _)
StaleAt(qs, op, a, b, h, stale) ==
    LET live == FlowClosure(qs, {0})
        out == {p \in live : \/ Overwrites(qs[p + 1], op, a, b, h)
                             \/ (p \in stale /\ ~Establishes(qs[p + 1], op, a, b, h))}
        more == stale \cup UNION {Flow(qs, p) : p \in out}
    IN  IF more = stale THEN stale ELSE StaleAt(qs, op, a, b, h, more)

\* the instruction at ordinal j of `before` was rewritten into an ASSIGN by the pass
RewrittenByCse(before, after, j) ==
    IsArith(before[j + 1].op) /\ after[j + 1].op = "ASSIGN"

\* C20: common-subexpression elimination rewrites  r := a op b  into
\* r := h  only if, on every execution path that reaches the instruction, h
\* was last assigned by an instruction computing a op b (operands in either
\* order for ADD/MUL) and none of a, b and h has been assigned since that
\* computation was evaluated.
C20_CseOnlyWhereExpressionAvailable ==
    (pc = "once" /\ Len(before_pass) > 0) =>
        \A j \in FlowClosure(before_pass, {0}) :
            RewrittenByCse(before_pass, quads, j) =>
                j \notin StaleAt(before_pass, before_pass[j + 1].op,
                                 before_pass[j + 1].arg1.name, before_pass[j + 1].arg2.name,
                                 quads[j + 1].arg1.name, {0})

\* q is the copy  x := y  of one name into another
IsCopy(q, x, y) ==
    q.op = "ASSIGN" /\ IsName(q.arg1) /\ q.arg1.name = y /\ Defines(q, x) /\ x # y

\* The ordinals some execution path from ordinal 0 reaches in a state where
\* "x was last assigned by x := y, and y not since" does not stand.  Least
\* fixed point from `stale`.
RECURSIVE CopyStaleAt(_, _, _, _)
CopyStaleAt(qs, x, y, stale) ==
    LET live == FlowClosure(qs, {0})
        out == {p \in live :
                   \/ ((Defines(qs[p + 1], x) \/ Defines(qs[p + 1], y)) /\ ~IsCopy(qs[p + 1], x, y))
                   \/ (p \in stale /\ ~IsCopy(qs[p + 1], x, y))}
        more == stale \cup UNION {Flow(qs, p) : p \in out}
    IN  IF more = stale THEN stale ELSE CopyStaleAt(qs, x, y, more)

\* the reads the pass replaced: <<ordinal, name before, name after>>
ReplacedReads(before, after) ==
    {<<j, before[j + 1].arg1.name, after[j + 1].arg1.name>> :
        j \in {k \in 0..(Len(before) - 1) : after[k + 1].arg1 # before[k + 1].arg1}}
    \cup
    {<<j, before[j + 1].arg2.name, after[j + 1].arg2.name>> :
        j \in {k \in 0..(Len(before) - 1) : after[k + 1].arg2 # before[k + 1].arg2}}

\* C21: copy propagation replaces a read of a name x by a name y only if,
\* on every execution path that reaches the read (fall-through, JMP target,
\* JPF target), the last assignment to x is  x := y  and y has not been
\* assigned after it.  The copies are read off the sequence the pass
\* returns, where a chain  y := z; x := y  already stands as  x := z.
C21_CopyReplacedOnlyWhereCopyStands ==
    (pc = "propagated" /\ Len(before_pass) > 0) =>
        \A r \in ReplacedReads(before_pass, quads) :
            r[1] \in FlowClosure(quads, {0}) =>
                r[1] \notin CopyStaleAt(quads, r[2], r[3], {0})

\* an instruction without its ghost field
Bare(q) == [op |-> q.op, arg1 |-> q.arg1, arg2 |-> q.arg2, result |-> q.result]

BareSeq(qs) == [k \in 1..Len(qs) |-> Bare(qs[k])]

NamesIn(qs) ==
    UNION {{qs[k].arg1.name, qs[k].arg2.name, qs[k].result.name} : k \in 1..Len(qs)}

\* `after` is `before` changed in the three places of a strength reduction
\* of the multiply at ordinal m by the induction update at ordinal u, with
\* the initialisation at ordinal p of `after`
ReducedAt(before, after, table, u, m, p) ==
    LET s == after[p + 1].result
        t == before[m + 1].result
        copy == [op |-> "ASSIGN", arg1 |-> s, arg2 |-> EmptyOperand, result |-> t]
        k == IF before[m + 1].arg1.type = "CONSTANT"
             THEN before[m + 1].arg1 ELSE before[m + 1].arg2
        step == before[u + 1].arg2
        at == u + 1                     \* where the update stands once p is taken out
        rest == SubSeqOrd(after, 0, p - 1) \o SubSeqOrd(after, p + 1, Len(after) - 1)
        upd == rest[at + 1]
        core == SubSeqOrd(rest, 0, at - 1) \o SubSeqOrd(rest, at + 1, Len(rest) - 1)
    IN  /\ Len(after) = Len(before) + 2
        /\ s.type = "TEMPORARY" /\ s.name \notin NamesIn(before)
        /\ Bare(after[p + 1]) = [Bare(before[m + 1]) EXCEPT !.result = s]
        /\ upd.op = "ADD" /\ upd.arg1 = s /\ upd.result = s
        /\ upd.arg2.type = "CONSTANT" /\ ValidIndex(upd.arg2.index, table)
        /\ table[upd.arg2.index + 1] = RMul(table[step.index + 1], table[k.index + 1])
        /\ BareSeq(core) = [BareSeq(before) EXCEPT ![m + 1] = copy]

\* the initialisation at ordinal p of `after` stands before the loop that
\* the jump at ordinal e of `before` closes: below the target of that jump,
\* which the two new instructions have moved to ordinal e + 2
BeforeLoop(after, e, p) ==
    e + 2 < Len(after) /\ p < after[e + 3].result.index

\* C22: when strength_reduction finds, in a detected range, an induction
\* update  i := i + C  and a multiply  t := i * K, the sequence after the
\* call differs from the one before it in exactly three places:  s := i * K
\* with a fresh Temporary s stands before the loop, outside the range from
\* the back-edge jump's target to the jump;  t := i * K  has become  t := s;
\* and  s := s + (C*K)  stands immediately after  i := i + C.
C22_StrengthReductionChangesThreePlaces ==
    (pc = "reduced" /\ last_pass.changed) =>
        \E e \in BackJumps(before_pass) :
            \E u, m \in before_pass[e + 1].result.index..e :
                \E p \in 0..(Len(quads) - 1) :
                    /\ IsInductionUpdate(before_pass[u + 1])
                    /\ IsReducibleMul(before_pass[m + 1], before_pass[u + 1].result.name)
                    /\ ReducedAt(before_pass, quads, constant_table, u, m, p)
                    /\ BeforeLoop(quads, e, p)

\* C23: for every instruction sequence, a second run of
\* loop_invariant_code_motion directly after a first run, with no other
\* pass in between, reports no change and leaves the sequence unchanged.
C23_SecondLicmChangesNothing ==
    pc = "passed twice" => (~last_pass.changed /\ quads = before_pass)

\* C29: whenever a pass of the fixed-point driver (constant_folding,
\* copy_propagation, eliminate_common_subexpressions,
\* loop_invariant_code_motion, strength_reduction, dead_code_elimination)
\* returns false, the instruction sequence and the constant pool are exactly
\* as they were before the call.
C29_FalseMeansUntouched ==
    (last_pass.name # "none" /\ ~last_pass.changed) =>
        (quads = before_pass /\ constant_table = before_table)

\* dead_code_elimination returned false on a sequence that an earlier pass
\* of the same iteration had changed and that assigns a Temporary
C29_Witness ==
    /\ last_pass = [name |-> "dead_code_elimination", changed |-> FALSE]
    /\ changed
    /\ quads # input_quads
    /\ \E k \in 1..Len(quads) : quads[k].result.type = "TEMPORARY"

-----------------------------------------------------------------------------
(* Properties of the steps of the block optimizer.                          *)

\* the ordinals of qs that hold a LABEL instruction with label id `id`
LabelsOf(qs, id) ==
    {p \in 0..(Len(qs) - 1) : is_label_op(qs[p + 1].op) /\ qs[p + 1].result.index = id}

LabelIds(qs) == {qs[p].result.index : p \in {k \in 1..Len(qs) : is_label_op(qs[k].op)}}

\* C13: after the label-lowering step of Optimizer::optimize and before any
\* other pass runs, for every input of length N with jump targets in
\* [0, N], every JUMP/JUMP_IF_FALSE references a label id for which exactly
\* one LABEL instruction exists, that LABEL stands immediately before the
\* instruction that was at the jump's original target ordinal, and label
\* ids are 0..k-1 with no gaps; no jump is left carrying a raw ordinal.
C13_LoweredJumpsNameOneLabel ==
    pc = "build_basic_blocks" =>
        /\ LabelIds(quads) = 0..(Cardinality(LabelIds(quads)) - 1)
        /\ \A j \in 1..Len(quads) :
              is_jump_op(quads[j].op) =>
                  LET target == input_quads[quads[j].ord + 1].result.index
                      at == LabelsOf(quads, quads[j].result.index)
                  IN  /\ Cardinality(at) = 1
                      /\ \A p \in at :
                            /\ p + 1 < Len(quads)
                            /\ quads[p + 2].ord = target

\* C13, amended: after the label-lowering step, label ids are 0..k-1 with
\* no gaps; every jump whose original target is below N references a label
\* id for which exactly one LABEL instruction exists, standing immediately
\* before the instruction that was at that target; a jump whose original
\* target is N keeps the ordinal N, and no LABEL carries the id N.
C13_LoweredJumpsBelowEndNameOneLabel ==
    pc = "build_basic_blocks" =>
        /\ LabelIds(quads) = 0..(Cardinality(LabelIds(quads)) - 1)
        /\ \A j \in 1..Len(quads) :
              is_jump_op(quads[j].op) =>
                  LET target == input_quads[quads[j].ord + 1].result.index
                      at == LabelsOf(quads, quads[j].result.index)
                  IN  IF target < Len(input_quads)
                      THEN /\ Cardinality(at) = 1
                           /\ \A p \in at :
                                 /\ p + 1 < Len(quads)
                                 /\ quads[p + 2].ord = target
                      ELSE quads[j].result.index = target /\ at = {}

\* the step gave a label id that differs from the line it stands for, and
\* left a jump to the end of the input as it was
C13_Witness ==
    /\ pc = "build_basic_blocks"
    /\ \E j \in 1..Len(quads) :
          /\ is_jump_op(quads[j].op)
          /\ input_quads[quads[j].ord + 1].result.index < Len(input_quads)
          /\ quads[j].result.index # input_quads[quads[j].ord + 1].result.index
    /\ \E j \in 1..Len(quads) :
          is_jump_op(quads[j].op) /\ quads[j].result.index = Len(input_quads)

\* the ordinal the instruction with input ordinal j named in the input
OriginalTarget(j) == input_quads[j + 1].result.index

BlocksLabelled(bs, id) ==
    {b \in 0..(Len(bs) - 1) :
        is_label_op(bs[b + 1].quads[1].op) /\ bs[b + 1].quads[1].result.index = id}

\* C19: build_basic_blocks gives a block ending in JUMP exactly one
\* successor, the block whose first instruction is the LABEL the jump
\* references, and gives a block ending in JUMP_IF_FALSE exactly two
\* successors, that same target block and the next block in sequence; each
\* such edge also appears in the target block's predecessor set.  Stated for
\* the jumps whose LABEL exists; a JUMP_IF_FALSE that ends the last block
\* has no next block, and one that names the next block has the two in one.
C19_JumpBlocksHaveTheirSuccessors ==
    pc = "compute_def_use_sets" =>
        \A i \in 0..(Len(blocks) - 1) :
            LET last_quad == blocks[i + 1].quads[Len(blocks[i + 1].quads)]
                target == BlocksLabelled(blocks, last_quad.result.index)
                next == {i + 1} \cap (0..(Len(blocks) - 1))
                expected == IF last_quad.op = "JMP" THEN target ELSE target \cup next
            IN  (is_jump_op(last_quad.op) /\ target # {}) =>
                    /\ Cardinality(target) = 1
                    /\ blocks[i + 1].successors = expected
                    /\ \A b \in expected : i \in blocks[b + 1].predecessors

Pseudo(qs) == {i \in 1..Len(qs) : qs[i].op \in {"LABEL", "NO_OP"}}

\* C15: for every input sequence that contains no LABEL and no NO_OP
\* instruction, the sequence returned by Optimizer::optimize contains no
\* LABEL and no NO_OP instruction.
C15_ReturnedSequenceIsLabelFree ==
    (pc = "returned" /\ Pseudo(input_quads) = {}) => Pseudo(quads) = {}

\* the call returned a sequence that had LABEL instructions while it ran
C15_Witness ==
    /\ pc = "returned"
    /\ Pseudo(input_quads) = {}
    /\ DOMAIN line_to_label_id(input_quads) # {}
    /\ Len(quads) < Len(input_quads)

-----------------------------------------------------------------------------
(* The emitter alone, for programs that also declare a variable named t0    *)
(* and call subprograms.                                                    *)

\* the variables the program text declares; handle_identifier takes any
\* letter followed by letters, digits and underscores as an identifier
DeclaredNames == {"x", "t0"}

\* the subprograms it declares: a procedure of one parameter, a function of none
SubprogramMenu ==
    { [name |-> "p", category |-> "PROCEDURE", parameters |-> 1],
      [name |-> "f", category |-> "FUNCTION", parameters |-> 0] }

\* the argument expressions of a call: factors, which emit nothing
ArgumentMenu == {Ident("x"), C(1)}

\* assignment_statement with any declared variable on the left
assignment_to_declared ==
    /\ pc = "parse"
    /\ \E n \in DeclaredNames, e \in ExpressionMenu :
          /\ Room(Size(e) + 1)
          /\ LET right == expression(e, input_quads, temp_counter)
             IN  Parsing(emit(right.quads, "ASSIGN", right.place, EmptyOperand, Ident(n)),
                         right.counter, control)

\* statement() on `name (`: one PARAM per argument, then CALL with the
\* callee, the argument count and, for a function, a fresh temporary
subprogram_call ==
    /\ pc = "parse"
    /\ \E symbol \in SubprogramMenu :
       \E args \in [1..symbol.parameters -> ArgumentMenu] :
          /\ Room(Len(args) + 1)
          /\ LET params == [i \in 1..Len(args) |->
                              Quad("PARAM", args[i], EmptyOperand, EmptyOperand,
                                   Len(input_quads) + i - 1)]
                 callee == Ident(symbol.name)
                 num_params == Operand("CONSTANT", Len(args), ToString(Len(args)))
                 result_temp == new_temp(temp_counter)
             IN  IF symbol.category = "FUNCTION"
                 THEN Parsing(emit(input_quads \o params, "CALL", callee, num_params,
                                   result_temp),
                              temp_counter + 1, control)
                 ELSE Parsing(emit(input_quads \o params, "CALL", callee, num_params,
                                   EmptyOperand),
                              temp_counter, control)

ParseNext ==
    \/ assignment_to_declared
    \/ subprogram_call
    \/ print_statement
    \/ if_then
    \/ if_else
    \/ if_end
    \/ while_do
    \/ while_end
    \/ ParseDone

SpecParse == EmitInit /\ [][ParseNext]_vars

-----------------------------------------------------------------------------
(* Properties of the emitter.                                               *)

Operands(q) == {q.arg1, q.arg2, q.result}

\* operand o, by its name, stands for the value v
Denotes(o, v) ==
    \/ o.name = to_string(v)
    \/ (v[2] = 1 /\ v[1] >= 0 /\ o.name = ToString(v[1]))

\* C16: every CONSTANT operand of every instruction the emitter produces
\* carries an index that is a valid position in the constant pool, and the
\* value stored at that position is the constant the operand denotes; for
\* every opcode, the argument-count operand of CALL included.
C16_ConstantIndexIsInPool ==
    \A i \in 1..Len(input_quads) : \A o \in Operands(input_quads[i]) :
        o.type = "CONSTANT" =>
            /\ ValidIndex(o.index, constant_table)
            /\ Denotes(o, constant_table[o.index + 1])

\* the names the operands of type t carry in qs
NamesOfType(qs, t) ==
    {o.name : o \in {u \in UNION {Operands(qs[i]) : i \in 1..Len(qs)} : u.type = t}} \ {""}

\* C17: in every instruction sequence the emitter produces from a program
\* that parses successfully, no name is carried both by an Identifier
\* operand and by a Temporary operand.
C17_IdentifierAndTemporaryNamesDisjoint ==
    NamesOfType(input_quads, "IDENTIFIER") \cap NamesOfType(input_quads, "TEMPORARY") = {}

-----------------------------------------------------------------------------
(* The symbol table as a machine: any sequence of enter_scope, exit_scope   *)
(* and add_symbol calls on a freshly constructed table.                     *)

EntryMenu ==
    { [name |-> n, category |-> c] : n \in SymbolNames, c \in {"VARIABLE", "FUNCTION"} }

Called(op, entry, result) ==
    [op |-> op, entry |-> entry, result |-> result,
     scope_stack |-> scope_stack, symbol_entries |-> symbol_entries]

TableInitial ==
    /\ input_quads = <<>>
    /\ quads = <<>>
    /\ constant_table = InitialConstants
    /\ pc = "table"
    /\ changed = FALSE
    /\ iterations = 0
    /\ sr_counter = 0
    /\ before_pass = <<>>
    /\ before_table = InitialConstants
    /\ last_pass = NoPass
    /\ blocks = <<>>
    /\ cur = 0
    /\ block_quads = <<>>
    /\ before_step = <<>>
    /\ garbage = "NONE"
    /\ temp_counter = 0
    /\ control = <<>>
    /\ parsed = {}
    /\ TableInit
    /\ ServerIdle

TableCall ==
    UNCHANGED <<input_quads, quads, constant_table, pc, driverVars, blockVars,
                temp_counter, control, parsed, serverVars>>

EnterScope ==
    /\ pc = "table"
    /\ Len(scope_stack) < MaxScopes
    /\ scope_stack' = enter_scope(scope_stack)
    /\ last_call' = Called("enter_scope", NoCall, TRUE)
    /\ UNCHANGED symbol_entries
    /\ TableCall

ExitScope ==
    /\ pc = "table"
    /\ scope_stack' = exit_scope(scope_stack)
    /\ last_call' = Called("exit_scope", NoCall, TRUE)
    /\ UNCHANGED symbol_entries
    /\ TableCall

AddSymbol ==
    /\ pc = "table"
    /\ \E entry \in EntryMenu :
          LET r == add_symbol(scope_stack, symbol_entries, entry)
          IN  /\ Len(r.symbol_entries) <= MaxEntries
              /\ scope_stack' = r.scope_stack
              /\ symbol_entries' = r.symbol_entries
              /\ last_call' = Called("add_symbol", entry, r.result)
    /\ TableCall

TableNext ==
    \/ EnterScope
    \/ ExitScope
    \/ AddSymbol

SpecTable == TableInitial /\ [][TableNext]_vars

-----------------------------------------------------------------------------
(* Properties of the symbol table.                                          *)

\* add_symbol returned false and left entries and scopes alone exactly when
\* the top scope held the name; on success the entry is appended and the
\* top scope maps the name to it, every other mapping as it was
AddSymbolOutcome ==
    last_call.op = "add_symbol" =>
        LET before == last_call.scope_stack
            top == Len(before)
            name == last_call.entry.name
        IN  /\ last_call.result = (name \notin DOMAIN before[top])
            /\ ~last_call.result =>
                  (scope_stack = before /\ symbol_entries = last_call.symbol_entries)
            /\ last_call.result =>
                  /\ symbol_entries = Append(last_call.symbol_entries, last_call.entry)
                  /\ Len(scope_stack) = top
                  /\ \A d \in 1..(top - 1) : scope_stack[d] = before[d]
                  /\ DOMAIN scope_stack[top] = DOMAIN before[top] \cup {name}
                  /\ \A n \in DOMAIN before[top] : scope_stack[top][n] = before[top][n]
                  /\ scope_stack[top][name] = Len(symbol_entries) - 1
                  /\ find_symbol(scope_stack, name, FALSE) = Len(symbol_entries) - 1

\* the scopes above level d that hold the name n
Shadowing(d, n) == {e \in (d + 1)..Len(scope_stack) : n \in DOMAIN scope_stack[e]}

\* C18: after any sequence of enter_scope, exit_scope and add_symbol calls,
\* add_symbol returns false and leaves the symbol entries and all scope
\* maps unchanged exactly when the current top scope already holds an entry
\* of that name; a same-named entry in an enclosing scope does not make it
\* fail, and on success the new entry is the one find_symbol returns for
\* that name until the scope is exited.
C18_AddSymbolAndLookup ==
    /\ AddSymbolOutcome
    /\ \A d \in 1..Len(scope_stack) : \A n \in DOMAIN scope_stack[d] :
            find_symbol(scope_stack, n, FALSE) = scope_stack[d][n]

\* C18, amended: ... and on success the new entry is the one find_symbol
\* returns for that name until the scope is exited, except while a scope
\* entered later holds an entry of the same name.
C18_AddSymbolAndLookupUnlessShadowed ==
    /\ AddSymbolOutcome
    /\ \A d \in 1..Len(scope_stack) : \A n \in DOMAIN scope_stack[d] :
            Shadowing(d, n) = {} => find_symbol(scope_stack, n, FALSE) = scope_stack[d][n]

\* add_symbol succeeded on a name an enclosing scope holds: two entries of
\* the name are in the table and find_symbol returns the newer one
C18_Witness ==
    /\ last_call.op = "add_symbol"
    /\ last_call.result
    /\ \E d \in 1..(Len(scope_stack) - 1) : last_call.entry.name \in DOMAIN scope_stack[d]

-----------------------------------------------------------------------------
(* compute_def_use_sets and compute_live_variables as functions of a block  *)
(* list: every list of at most MaxBlocks blocks over LiveMenu, each block   *)
(* with any successors the third step of build_basic_blocks could insert.   *)

\* what a block holds:  y := x  (reads x, writes y)  or  print y
LiveMenu ==
    { <<Quad("ASSIGN", Ident("x"), EmptyOperand, Ident("y"), 0)>>,
      <<Quad("PRINT", Ident("y"), EmptyOperand, EmptyOperand, 0)>> }

\* successors of a block among n: the third step inserts a jump target, a
\* fall-through block, both or neither; here each is any block of the list
SuccessorChoices(n) ==
    LET one == {{}} \cup {{k} : k \in 0..(n - 1)}
    IN  {t \cup f : t \in one, f \in one}

BlockLists(most) ==
    UNION {[1..n -> {[BasicBlock(c) EXCEPT !.successors = succ] :
                        c \in LiveMenu, succ \in SuccessorChoices(n)}] : n \in 0..most}

\* the call is given a list of at most `most` blocks
LiveFrom(most) ==
    /\ input_quads = <<>>
    /\ quads = <<>>
    /\ constant_table = InitialConstants
    /\ pc = "compute_def_use_sets"
    /\ changed = FALSE
    /\ iterations = 0
    /\ sr_counter = 0
    /\ before_pass = <<>>
    /\ before_table = InitialConstants
    /\ last_pass = NoPass
    /\ blocks \in BlockLists(most)
    /\ cur = 0
    /\ block_quads = <<>>
    /\ before_step = <<>>
    /\ garbage = "NONE"
    /\ temp_counter = 0
    /\ control = <<>>
    /\ parsed = {}
    /\ TableInit
    /\ ServerIdle

LiveInit == LiveFrom(MaxBlocks)

LiveInitFair == LiveFrom(MaxBlocksFair)

LiveDefUse ==
    /\ pc = "compute_def_use_sets"
    /\ blocks' = compute_def_use_sets(blocks)
    /\ pc' = "do"
    /\ UNCHANGED <<input_quads, quads, constant_table, driverVars, cur, block_quads,
                   before_step, garbage, emitVars>>

\* one trip of do { changed = false; for (auto& block : blocks) ... }
\* while (changed)
LiveTrip ==
    /\ pc = "do"
    /\ LET r == LiveSweep(blocks)
       IN  /\ blocks' = r.blocks
           /\ changed' = r.changed
           /\ iterations' = iterations + 1
           /\ pc' = IF r.changed THEN "do" ELSE "live"
    /\ UNCHANGED <<input_quads, quads, constant_table, sr_counter, before_pass,
                   before_table, last_pass, cur, block_quads, before_step, garbage,
                   emitVars>>

LiveNext ==
    \/ LiveDefUse
    \/ LiveTrip

SpecLive == LiveInit /\ [][LiveNext]_vars

\* the call is sequential code: it takes its next step as long as it has one
SpecLiveFair == LiveInitFair /\ [][LiveNext]_vars /\ WF_vars(LiveNext)

-----------------------------------------------------------------------------
(* Properties of the liveness analysis.                                     *)

\* block i lies on a cycle of the successor relation of two blocks or of one
OnCycle(bs, i) == \E j \in bs[i].successors : (i - 1) \in bs[j + 1].successors

\* C24: when compute_live_variables returns, every block B satisfies both
\* data-flow equations: live_out[B] is the union of live_in[S] over the
\* successors S of B, and live_in[B] is use[B] united with live_out[B]
\* minus def[B].
C24_LivenessEquationsHold ==
    pc = "live" =>
        \A i \in 1..Len(blocks) :
            /\ blocks[i].live_out = UNION {blocks[k + 1].live_in : k \in blocks[i].successors}
            /\ blocks[i].live_in = blocks[i].use \cup (blocks[i].live_out \ blocks[i].def)

\* the call returned for a list with a cycle through a block that writes y,
\* with x live around the cycle
C24_Witness ==
    /\ pc = "live"
    /\ \E i \in 1..Len(blocks) :
          /\ OnCycle(blocks, i)
          /\ "y" \in blocks[i].def
          /\ "x" \in blocks[i].live_out

\* no live_in or live_out set of bs is larger than that set in cs
Within(bs, cs) ==
    \A i \in 1..Len(bs) :
        bs[i].live_in \subseteq cs[i].live_in /\ bs[i].live_out \subseteq cs[i].live_out

\* C25: for every finite list of blocks with any successor relation, cycles
\* included, compute_live_variables terminates: the live_in and live_out
\* sets never shrink from one sweep to the next, and the loop stops after
\* the first sweep in which no set changed.
C25_LivenessTerminates ==
    /\ [][pc = "do" => /\ Within(blocks, blocks')
                       /\ (pc' = "live") = (blocks' = blocks)]_vars
    /\ <>(pc = "live")

\* the call returned after three sweeps or more over a list with a cycle
C25_Witness ==
    /\ pc = "live"
    /\ iterations > Len(blocks)
    /\ Len(blocks) > 1
    /\ \E i \in 1..Len(blocks) : OnCycle(blocks, i)

-----------------------------------------------------------------------------
(* The block-local steps of optimize_basic_blocks as functions of a block:  *)
(* one step applied to every block of at most MaxLenStep instructions over  *)
(* StepMenu, with any live_out over StepNames.                              *)

\* instructions in the shapes the emitter gives them, and a LABEL of step 0
StepMenu ==
    { Quad("ADD", Ident("x"), C(1), Temp(0), 0),
      Quad("ASSIGN", Temp(0), EmptyOperand, Ident("x"), 0),
      Quad("ASSIGN", Temp(0), EmptyOperand, Ident("y"), 0),
      Quad("ASSIGN", C(1), EmptyOperand, Ident("x"), 0),
      Quad("PRINT", Ident("x"), EmptyOperand, EmptyOperand, 0),
      Quad("PRINT", Temp(0), EmptyOperand, EmptyOperand, 0),
      Quad("PARAM", Ident("x"), EmptyOperand, EmptyOperand, 0),
      Quad("CALL", Ident("p"), Operand("CONSTANT", 1, "1"), EmptyOperand, 0),
      Quad("RETURN", Ident("x"), EmptyOperand, EmptyOperand, 0),
      Quad("JPF", Temp(0), EmptyOperand, Label(0), 0),
      label_quad(0, "NONE") }

StepNames == {"x", "t0"}

StepInit ==
    /\ input_quads = <<>>
    /\ quads = <<>>
    /\ constant_table = InitialConstants
    /\ pc = "block"
    /\ changed = FALSE
    /\ iterations = 0
    /\ sr_counter = 0
    /\ before_pass = <<>>
    /\ before_table = InitialConstants
    /\ last_pass = NoPass
    /\ blocks = <<>>
    /\ cur = 0
    /\ block_quads = <<>>
    /\ before_step = <<>>
    /\ garbage = "NONE"
    /\ temp_counter = 0
    /\ control = <<>>
    /\ parsed = {}
    /\ TableInit
    /\ ServerIdle

\* the block the for loop of optimize_basic_blocks has reached
StepInput ==
    /\ pc = "block"
    /\ Len(block_quads) < MaxLenStep
    /\ \E q \in StepMenu :
            block_quads' = Append(block_quads, [q EXCEPT !.ord = Len(block_quads)])
    /\ UNCHANGED <<input_quads, quads, constant_table, pc, driverVars, blocks, cur,
                   before_step, garbage, emitVars>>

StepEliminateRedundantStores ==
    /\ BlockStep("block", "stores eliminated",
                 eliminate_redundant_stores_in_block(block_quads))
    /\ blocks' = <<BasicBlock(block_quads)>>
    /\ UNCHANGED <<input_quads, quads, constant_table, driverVars, cur, garbage, emitVars>>

StepFoldTemps ==
    /\ \E live_out \in SUBSET StepNames :
          /\ blocks' = <<[BasicBlock(block_quads) EXCEPT !.live_out = live_out]>>
          /\ BlockStep("block", "temps folded", fold_temps_in_block(block_quads, live_out))
    /\ UNCHANGED <<input_quads, quads, constant_table, driverVars, cur, garbage, emitVars>>

StepNext ==
    \/ StepInput
    \/ StepEliminateRedundantStores
    \/ StepFoldTemps

SpecStep == StepInit /\ [][StepNext]_vars

-----------------------------------------------------------------------------
(* Properties of the block-local steps.  An instruction keeps its ghost     *)
(* field `ord`, its position in the block the step was given, through the   *)
(* step.                                                                    *)

Ords(qs) == {qs[k].ord : k \in 1..Len(qs)}

\* the instructions of `after` stand in the order they had in the block
InOrder(after) == \A k \in 1..(Len(after) - 1) : after[k].ord < after[k + 1].ord

\* q reads the Identifier n
ReadsIdentifier(q, n) ==
    \/ q.arg1.type = "IDENTIFIER" /\ q.arg1.name = n
    \/ q.arg2.type = "IDENTIFIER" /\ q.arg2.name = n

\* q is an instruction that computes a value into its result
Assigns(q) == IsArith(q.op) \/ q.op = "ASSIGN"

\* the store at position p of qs is followed by another store to the same
\* Identifier, with no read of it and no CALL between the two
Overwritten(qs, p) ==
    /\ Assigns(qs[p])
    /\ qs[p].result.type = "IDENTIFIER"
    /\ \E r \in (p + 1)..Len(qs) :
          /\ Assigns(qs[r])
          /\ qs[r].result.type = "IDENTIFIER"
          /\ qs[r].result.name = qs[p].result.name
          /\ \A k \in (p + 1)..(r - 1) :
                ~ReadsIdentifier(qs[k], qs[p].result.name) /\ qs[k].op # "CALL"

\* C26: redundant-store elimination removes an instruction from a block only
\* if it assigns an Identifier n and a later instruction of the same block
\* also assigns n with no instruction reading n and no CALL between the two;
\* every other instruction of the block, every PRINT, PARAM, CALL, RETURN,
\* jump and LABEL included, is kept unchanged and in its original order.
C26_OnlyOverwrittenStoresRemoved ==
    pc = "stores eliminated" =>
        /\ InOrder(block_quads)
        /\ \A k \in 1..Len(block_quads) : block_quads[k] = before_step[block_quads[k].ord + 1]
        /\ \A p \in 1..Len(before_step) :
                before_step[p].ord \notin Ords(block_quads) => Overwritten(before_step, p)

\* a store was removed from a block that holds a PRINT and a CALL
C26_Witness ==
    /\ pc = "stores eliminated"
    /\ Len(block_quads) < Len(before_step)
    /\ \E k \in 1..Len(block_quads) : block_quads[k].op \in {"PRINT", "CALL"}

\* the name t is live after position p of qs: read at a later position
\* before any later instruction assigns it, or in live_out with no later
\* instruction assigning it
LiveAfter(qs, p, t, live_out) ==
    LET touch == {k \in (p + 1)..Len(qs) : t \in Reads(qs[k]) \/ Defines(qs[k], t)}
    IN  IF touch = {} THEN t \in live_out
        ELSE t \in Reads(qs[CHOOSE k \in touch : \A j \in touch : k <= j])

\* positions p, p + 1 of qs hold  t := a op b ; v := t  with t a Temporary
\* that is not live after the second
FoldablePair(qs, p, live_out) ==
    /\ p + 1 <= Len(qs)
    /\ IsArith(qs[p].op)
    /\ qs[p].result.type = "TEMPORARY"
    /\ qs[p + 1].op = "ASSIGN"
    /\ qs[p + 1].arg1 = qs[p].result
    /\ ~LiveAfter(qs, p + 1, qs[p].result.name, live_out)

\* C27: temporary folding replaces two adjacent instructions  t := a op b
\* (op in ADD/SUB/MUL/DIV, t a Temporary) and  v := t  of one block by the
\* single instruction  v := a op b  only when t is not live after the second
\* instruction (neither read later in the block nor in the block's
\* live_out), and leaves every other instruction unchanged and in order.
C27_TempsFoldedOnlyWhereDead ==
    pc = "temps folded" =>
        /\ InOrder(block_quads)
        /\ \A k \in 1..Len(block_quads) :
              LET p == block_quads[k].ord + 1
              IN  \/ /\ block_quads[k] = before_step[p]
                     /\ (p + 1 <= Len(before_step) => before_step[p + 1].ord \in Ords(block_quads))
                  \/ /\ FoldablePair(before_step, p, blocks[1].live_out)
                     /\ block_quads[k] = [before_step[p] EXCEPT !.result = before_step[p + 1].result]
                     /\ before_step[p + 1].ord \notin Ords(block_quads)
        /\ \A p \in 1..Len(before_step) :
              before_step[p].ord \notin Ords(block_quads) =>
                  p > 1 /\ before_step[p - 1].ord \in Ords(block_quads)

\* a pair was folded in a block that also holds a PRINT
C27_Witness ==
    /\ pc = "temps folded"
    /\ Len(block_quads) < Len(before_step)
    /\ \E k \in 1..Len(before_step) : before_step[k].op = "PRINT"

-----------------------------------------------------------------------------
(* Properties of the jumps the emitter writes.                              *)

\* the while statements parsed to their end whose closing jump stands at
\* ordinal j: while_statement emits it last, before the final backpatch
WhilesClosedAt(j) == {c \in parsed : c.frame.kind = "while" /\ c.end = j + 1}

\* C28: in every sequence the emitter produces for any nesting of
\* if-then[-else] and while-do statements, an unconditional JUMP has a target
\* ordinal smaller than its own if and only if it is the closing jump of a
\* while loop, and its target is then the ordinal of that loop's first
\* condition instruction; every JUMP_IF_FALSE and every jump over an else
\* part targets an ordinal greater than its own and at most the sequence
\* length.
C28_JumpDirections ==
    control = <<>> =>
        \A j \in 0..(Len(input_quads) - 1) :
            LET q == input_quads[j + 1]
                target == q.result.index
            IN  /\ q.op = "JMP" => ((target < j) <=> (WhilesClosedAt(j) # {}))
                /\ q.op = "JMP" =>
                      \A c \in WhilesClosedAt(j) :
                          /\ target = c.frame.loop_start
                          /\ target < c.frame.quad
                          /\ \A k \in target..(c.frame.quad - 1) :
                                ~is_jump_op(input_quads[k + 1].op)
                          /\ input_quads[c.frame.quad + 1].op = "JPF"
                          /\ input_quads[c.frame.quad + 1].arg1 = input_quads[c.frame.quad].result
                /\ (q.op = "JPF" \/ (q.op = "JMP" /\ WhilesClosedAt(j) = {})) =>
                      /\ q.result.type = "LABEL"
                      /\ j < target
                      /\ target <= Len(input_quads)

\* a complete program with a while loop inside an if-then-else, or the
\* other way round
C28_Witness ==
    /\ control = <<>>
    /\ \E w, e \in parsed :
          /\ w.frame.kind = "while"
          /\ e.frame.kind = "else"
          /\ \/ (e.frame.quad > w.frame.quad /\ e.end < w.end)
             \/ (w.frame.quad > e.frame.quad /\ w.end <= e.end)

-----------------------------------------------------------------------------
(* The handler of POST /api/compile.  Each request goes through the         *)
(* callbacks of the handler in order; the steps of different requests       *)
(* interleave: fs.writeFile runs on the thread pool and exec starts a       *)
(* process, and Node runs other handlers and callbacks while either is      *)
(* pending.                                                                 *)

\* req.body.code: the empty string and two texts of different length
CodeMenu == {<<>>, <<"a">>, <<"b", "b">>}

\* a request the handler has just been called for: nothing sent yet
Request(code) ==
    [code |-> code, at |-> "received", input |-> <<>>,
     response |-> [status |-> 0, json |-> <<>>]]

\* what compiler_app prints for a source text; texts that differ give
\* outputs that differ
CompilerOutput(text) == [status |-> 200, json |-> text]

\* write(2) of `text` at offset 0 of a file holding `content`
WriteAt(content, text) == text \o SubSeq(content, Len(text) + 1, Len(content))

ServerInit ==
    /\ input_quads = <<>>
    /\ quads = <<>>
    /\ constant_table = InitialConstants
    /\ pc = "listening"
    /\ changed = FALSE
    /\ iterations = 0
    /\ sr_counter = 0
    /\ before_pass = <<>>
    /\ before_table = InitialConstants
    /\ last_pass = NoPass
    /\ blocks = <<>>
    /\ cur = 0
    /\ block_quads = <<>>
    /\ before_step = <<>>
    /\ garbage = "NONE"
    /\ temp_counter = 0
    /\ control = <<>>
    /\ parsed = {}
    /\ TableInit
    /\ temp_code = <<>>
    /\ \E n \in 1..MaxRequests : requests \in [1..n -> {Request(code) : code \in CodeMenu}]

Served(r, next) ==
    /\ requests' = [requests EXCEPT ![r] = next]
    /\ UNCHANGED <<input_quads, quads, constant_table, pc, driverVars, blockVars,
                   temp_counter, control, parsed, tableVars>>

\* the handler body: 400 on an empty code, else fs.writeFile is called
Handle ==
    \E r \in DOMAIN requests :
        /\ requests[r].at = "received"
        /\ IF requests[r].code = <<>>
           THEN Served(r, [requests[r] EXCEPT !.at = "responded",
                                             !.response = [status |-> 400, json |-> <<>>]])
           ELSE Served(r, [requests[r] EXCEPT !.at = "open"])
        /\ UNCHANGED temp_code

\* fs.writeFile opens the file with flag 'w', which truncates it
WriteFileOpen ==
    \E r \in DOMAIN requests :
        /\ requests[r].at = "open"
        /\ temp_code' = <<>>
        /\ Served(r, [requests[r] EXCEPT !.at = "write"])

\* fs.writeFile writes the text through its own descriptor and closes
WriteFileWrite ==
    \E r \in DOMAIN requests :
        /\ requests[r].at = "write"
        /\ temp_code' = WriteAt(temp_code, requests[r].code)
        /\ Served(r, [requests[r] EXCEPT !.at = "written"])

\* the callback of fs.writeFile: exec(command) starts the compiler
Exec ==
    \E r \in DOMAIN requests :
        /\ requests[r].at = "written"
        /\ Served(r, [requests[r] EXCEPT !.at = "exec"])
        /\ UNCHANGED temp_code

\* the compiler process reads the file named by --input
CompilerReads ==
    \E r \in DOMAIN requests :
        /\ requests[r].at = "exec"
        /\ Served(r, [requests[r] EXCEPT !.at = "compiling", !.input = temp_code])
        /\ UNCHANGED temp_code

\* the callback of exec: the response is the parsed stdout of the compiler
Respond ==
    \E r \in DOMAIN requests :
        /\ requests[r].at = "compiling"
        /\ Served(r, [requests[r] EXCEPT !.at = "responded",
                                         !.response = CompilerOutput(requests[r].input)])
        /\ UNCHANGED temp_code

ServerNext ==
    \/ Handle
    \/ WriteFileOpen
    \/ WriteFileWrite
    \/ Exec
    \/ CompilerReads
    \/ Respond

SpecServer == ServerInit /\ [][ServerNext]_vars

\* C30: when two POST /api/compile requests are in flight at the same time,
\* each response is the compiler's output for the code submitted in that same
\* request, under every interleaving of the two requests' file-write and
\* compiler-exec steps.
C30_ResponseIsForOwnCode ==
    \A r \in DOMAIN requests :
        (requests[r].at = "responded" /\ requests[r].code # <<>>) =>
            requests[r].response = CompilerOutput(requests[r].code)

=============================================================================
